---- MODULE Spec2Model ----
(***************************************************************************)
(* postgresql-mcp-gallop: the tool call handler, the tool handlers, the    *)
(* DatabaseManager (query / execute / close / gracefulShutdown) over a pg  *)
(* connection pool, and the process' startup and signal handling.          *)
(***************************************************************************)
EXTENDS Integers, Sequences, FiniteSets, TLC

Min(S) == CHOOSE x \in S : \A y \in S : x <= y

Max(S) == CHOOSE x \in S : \A y \in S : x >= y

Range(f) == {f[i] : i \in DOMAIN f}

(***************************************************************************)
(* JavaScript string primitives.  A string is a sequence of characters.    *)
(***************************************************************************)
Whitespace == {" ", "\t", "\n"}

UpperCase == <<"A", "B", "C", "D", "E", "F", "G", "H", "I", "J", "K", "L", "M", "N", "O", "P", "Q", "R", "S", "T", "U", "V", "W", "X", "Y", "Z">>

LowerCase == <<"a", "b", "c", "d", "e", "f", "g", "h", "i", "j", "k", "l", "m", "n", "o", "p", "q", "r", "s", "t", "u", "v", "w", "x", "y", "z">>

\* String.prototype.toLowerCase
toLowerCase(s) ==
  [i \in 1..Len(s) |->
     IF \E j \in 1..26 : UpperCase[j] = s[i]
     THEN LowerCase[CHOOSE j \in 1..26 : UpperCase[j] = s[i]]
     ELSE s[i]]

\* String.prototype.trim
trim(s) ==
  LET keep == {i \in 1..Len(s) : s[i] \notin Whitespace}
  IN IF keep = {} THEN <<>> ELSE SubSeq(s, Min(keep), Max(keep))

\* String.prototype.includes
includes(s, sub) ==
  \E i \in 0..(Len(s) - Len(sub)) : SubSeq(s, i + 1, i + Len(sub)) = sub

\* String.prototype.startsWith
startsWith(s, p) == Len(s) >= Len(p) /\ SubSeq(s, 1, Len(p)) = p

\* s.split(/\s+/)[0]: the characters before the first run of whitespace
splitFirst(s) ==
  LET ws == {i \in 1..Len(s) : s[i] \in Whitespace}
  IN IF ws = {} THEN s ELSE SubSeq(s, 1, Min(ws) - 1)

(***************************************************************************)
(* SQL keywords and the statement texts the callers send.                  *)
(***************************************************************************)
K_select == <<"s", "e", "l", "e", "c", "t">>

K_with == <<"w", "i", "t", "h">>

K_insert == <<"i", "n", "s", "e", "r", "t">>

K_update == <<"u", "p", "d", "a", "t", "e">>

K_delete == <<"d", "e", "l", "e", "t", "e">>

K_create == <<"c", "r", "e", "a", "t", "e">>

K_alter == <<"a", "l", "t", "e", "r">>

K_drop == <<"d", "r", "o", "p">>

K_truncate == <<"t", "r", "u", "n", "c", "a", "t", "e">>

K_grant == <<"g", "r", "a", "n", "t">>

K_revoke == <<"r", "e", "v", "o", "k", "e">>

K_drop_database == <<"d", "r", "o", "p", " ", "d", "a", "t", "a", "b", "a", "s", "e">>

K_drop_schema == <<"d", "r", "o", "p", " ", "s", "c", "h", "e", "m", "a">>

K_drop_user == <<"d", "r", "o", "p", " ", "u", "s", "e", "r">>

K_drop_role == <<"d", "r", "o", "p", " ", "r", "o", "l", "e">>

K_shutdown == <<"s", "h", "u", "t", "d", "o", "w", "n">>

K_restart == <<"r", "e", "s", "t", "a", "r", "t">>

\* "select 1"
Sql_select1 == <<"s", "e", "l", "e", "c", "t", " ", "1">>

\* " SELECT 1"
Sql_SelectPadded == <<" ", "S", "E", "L", "E", "C", "T", " ", "1">>

\* "with c as (select 1) select 1"
Sql_withCte == <<"w", "i", "t", "h", " ", "c", " ", "a", "s", " ", "(", "s", "e", "l", "e", "c", "t", " ", "1", ")", " ", "s", "e", "l", "e", "c", "t", " ", "1">>

\* "insert into t values (1)"
Sql_insert == <<"i", "n", "s", "e", "r", "t", " ", "i", "n", "t", "o", " ", "t", " ", "v", "a", "l", "u", "e", "s", " ", "(", "1", ")">>

\* "UPDATE t set a=1"
Sql_UpdateUpper == <<"U", "P", "D", "A", "T", "E", " ", "t", " ", "s", "e", "t", " ", "a", "=", "1">>

\* "drop table t"
Sql_dropTable == <<"d", "r", "o", "p", " ", "t", "a", "b", "l", "e", " ", "t">>

\* "drop database d"
Sql_dropDatabase == <<"d", "r", "o", "p", " ", "d", "a", "t", "a", "b", "a", "s", "e", " ", "d">>

\* "DROP SCHEMA s"
Sql_DropSchemaUpper == <<"D", "R", "O", "P", " ", "S", "C", "H", "E", "M", "A", " ", "s">>

\* "select 1; drop database d"
Sql_selectDropDatabase == <<"s", "e", "l", "e", "c", "t", " ", "1", ";", " ", "d", "r", "o", "p", " ", "d", "a", "t", "a", "b", "a", "s", "e", " ", "d">>

\* "insert into shutdown_log values (1)"
Sql_insertShutdown == <<"i", "n", "s", "e", "r", "t", " ", "i", "n", "t", "o", " ", "s", "h", "u", "t", "d", "o", "w", "n", "_", "l", "o", "g", " ", "v", "a", "l", "u", "e", "s", " ", "(", "1", ")">>

\* "with c as (select 1) select 1; drop role r"
Sql_withDropRole == <<"w", "i", "t", "h", " ", "c", " ", "a", "s", " ", "(", "s", "e", "l", "e", "c", "t", " ", "1", ")", " ", "s", "e", "l", "e", "c", "t", " ", "1", ";", " ", "d", "r", "o", "p", " ", "r", "o", "l", "e", " ", "r">>

\* "vacuum t"
Sql_vacuum == <<"v", "a", "c", "u", "u", "m", " ", "t">>

\* " " (passes z.string().min(1), trims to the empty string)
Sql_blank == <<" ">>

Statements ==
  { Sql_select1, Sql_SelectPadded, Sql_withCte, Sql_insert, Sql_UpdateUpper,
    Sql_dropTable, Sql_dropDatabase, Sql_DropSchemaUpper, Sql_selectDropDatabase,
    Sql_insertShutdown, Sql_withDropRole, Sql_vacuum, Sql_blank }

(***************************************************************************)
(* JavaScript values, thrown errors and zod schemas (types.ts).            *)
(***************************************************************************)
Undefined == [t |-> "undefined"]

Str(s) == [t |-> "string", v |-> s]

Num(n) == [t |-> "number", v |-> n]

Arr(a) == [t |-> "array", v |-> a]

\* A message: the literal template of the source and the value interpolated in it
Msg(template, arg) == [template |-> template, arg |-> arg]

\* code = "" and detail = "" stand for undefined (both are falsy)
ValidationError(message) ==
  [type |-> "ValidationError", message |-> message, code |-> "", detail |-> "", issues |-> <<>>]

DatabaseError(message, code, detail) ==
  [type |-> "DatabaseError", message |-> message, code |-> code, detail |-> detail, issues |-> <<>>]

ZodError(issues) ==
  [type |-> "ZodError", message |-> Msg("(zod issues)", <<>>), code |-> "", detail |-> "", issues |-> issues]

\* A plain Error, as the driver or the call handler throws it
PlainError(message, code) ==
  [type |-> "Error", message |-> message, code |-> code, detail |-> "", issues |-> <<>>]

Issue(path, message) == [path |-> path, message |-> message]

\* z.string().min(1, minMessage)
zStringMin1(path, v, minMessage) ==
  IF v.t = "undefined" THEN <<Issue(path, "Required")>>
  ELSE IF v.t # "string" THEN <<Issue(path, "Expected string")>>
  ELSE IF Len(v.v) < 1 THEN <<Issue(path, minMessage)>>
  ELSE <<>>

\* a variant of zArrayOptional that accepts any value
zArrayOptionalUnchecked(path, v) == <<>>

\* z.array(z.any()).optional()
zArrayOptional(path, v) ==
  IF v.t \in {"undefined", "array"} THEN <<>> ELSE <<Issue(path, "Expected array")>>

\* QueryParamsSchema.parse / ExecuteParamsSchema.parse: the issues it throws with
QueryParamsSchema(args) ==
  IF args.t # "object" THEN <<Issue(<<>>, "Required")>>
  ELSE zStringMin1(<<"query">>, args.query, "Query cannot be empty")
       \o zArrayOptional(<<"params">>, args.params)

ExecuteParamsSchema(args) ==
  IF args.t # "object" THEN <<Issue(<<>>, "Required")>>
  ELSE zStringMin1(<<"query">>, args.query, "Query cannot be empty")
       \o zArrayOptional(<<"params">>, args.params)

\* DescribeTableParamsSchema.parse
DescribeTableParamsSchema(args) ==
  IF args.t # "object" THEN <<Issue(<<>>, "Required")>>
  ELSE zStringMin1(<<"tableName">>, args.tableName, "Table name cannot be empty")

DecimalDigits == <<"0", "1", "2", "3", "4", "5", "6", "7", "8", "9">>

\* ColumnDefinitionSchema, for the column at index i (0-based, as zod reports it)
ColumnDefinitionSchema(i, col) ==
  zStringMin1(<<"columns", DecimalDigits[i + 1], "name">>, col.name, "Column name cannot be empty")
  \o zStringMin1(<<"columns", DecimalDigits[i + 1], "type">>, col.type, "Column type cannot be empty")

RECURSIVE ColumnsIssues(_, _)
\* z.array(ColumnDefinitionSchema): the issues of the columns from index i on
ColumnsIssues(cols, i) ==
  IF i >= Len(cols) THEN <<>>
  ELSE ColumnDefinitionSchema(i, cols[i + 1]) \o ColumnsIssues(cols, i + 1)

\* CreateTableParamsSchema.parse
CreateTableParamsSchema(args) ==
  IF args.t # "object" THEN <<Issue(<<>>, "Required")>>
  ELSE zStringMin1(<<"tableName">>, args.tableName, "Table name cannot be empty")
       \o (IF args.columns.t = "undefined" THEN <<Issue(<<"columns">>, "Required")>>
           ELSE IF args.columns.t # "array" THEN <<Issue(<<"columns">>, "Expected array")>>
           ELSE IF Len(args.columns.v) < 1
                THEN <<Issue(<<"columns">>, "At least one column is required")>>
           ELSE ColumnsIssues(args.columns.v, 0))

(***************************************************************************)
(* The tool handlers up to their call of the DatabaseManager: either the   *)
(* error thrown before it (gate.error) or the statement handed over.       *)
(***************************************************************************)
ALLOWED_COMMANDS ==
  <<K_insert, K_update, K_delete, K_create, K_alter, K_drop, K_truncate, K_grant, K_revoke>>

DANGEROUS_COMMANDS ==
  <<K_drop_database, K_drop_schema, K_drop_user, K_drop_role, K_shutdown, K_restart>>

Thrown(error) == [pass |-> FALSE, error |-> error]

\* method: the DatabaseManager method called; text: the statement given to it
Pass(method, text) == [pass |-> TRUE, method |-> method, text |-> text]

\* a variant of querySecurityCheck that compares the text as it was given
querySecurityCheckCaseSensitive(query) ==
  IF ~startsWith(query, K_select) /\ ~startsWith(query, K_with)
  THEN Thrown(ValidationError(Msg(
         "Query tool only supports SELECT and WITH statements for security reasons", <<>>)))
  ELSE Pass("query", query)

\* a variant of querySecurityCheck with the test inverted
querySecurityCheckInverted(query) ==
  LET trimmedQuery == toLowerCase(trim(query))
  IN IF startsWith(trimmedQuery, K_select) \/ startsWith(trimmedQuery, K_with)
     THEN [pass |-> FALSE,
           error |-> ValidationError(Msg(
            "Query tool only supports SELECT and WITH statements for security reasons", <<>>))]
     ELSE [pass |-> TRUE, method |-> "query", text |-> query]

\* handleQuery, query.ts lines 27-33
querySecurityCheck(query) ==
  LET trimmedQuery == toLowerCase(trim(query))
  IN IF ~startsWith(trimmedQuery, K_select) /\ ~startsWith(trimmedQuery, K_with)
     THEN Thrown(ValidationError(Msg(
            "Query tool only supports SELECT and WITH statements for security reasons", <<>>)))
     ELSE Pass("query", query)

\* handleQuery, query.ts lines 17-36
handleQueryGate(args) ==
  IF QueryParamsSchema(args) # <<>> THEN Thrown(ZodError(QueryParamsSchema(args)))
  ELSE querySecurityCheck(args.query.v)

\* the for loop over DANGEROUS_COMMANDS, execute.ts lines 54-60: the indexes that match
dangerousHits(trimmedQuery) ==
  {i \in 1..Len(DANGEROUS_COMMANDS) : includes(trimmedQuery, DANGEROUS_COMMANDS[i])}

\* a variant of executeSecurityCheck that compares the first word as it was given
executeSecurityCheckCaseSensitive(query) ==
  LET trimmedQuery == toLowerCase(trim(query))
      firstWord == splitFirst(trim(query))
  IN IF dangerousHits(trimmedQuery) # {}
     THEN Thrown(ValidationError(Msg(
            "Dangerous command detected: ${dangerousCmd}. This operation is not allowed for security reasons.",
            DANGEROUS_COMMANDS[Min(dangerousHits(trimmedQuery))])))
     ELSE IF firstWord = <<>> \/ firstWord \notin Range(ALLOWED_COMMANDS)
     THEN Thrown(ValidationError(Msg(
            "Command '${firstWord}' is not allowed. Allowed commands: insert, update, delete, create, alter, drop, truncate, grant, revoke",
            firstWord)))
     ELSE Pass("execute", query)

\* a variant of executeSecurityCheck that looks at the first word before the
\* dangerous commands
executeSecurityCheckVerbFirst(query) ==
  LET trimmedQuery == toLowerCase(trim(query))
      firstWord == toLowerCase(splitFirst(trim(query)))
  IN IF firstWord = <<>> \/ firstWord \notin Range(ALLOWED_COMMANDS)
     THEN Thrown(ValidationError(Msg(
            "Command '${firstWord}' is not allowed. Allowed commands: insert, update, delete, create, alter, drop, truncate, grant, revoke",
            firstWord)))
     ELSE IF dangerousHits(trimmedQuery) # {}
     THEN Thrown(ValidationError(Msg(
            "Dangerous command detected: ${dangerousCmd}. This operation is not allowed for security reasons.",
            DANGEROUS_COMMANDS[Min(dangerousHits(trimmedQuery))])))
     ELSE Pass("execute", query)

\* handleExecute, execute.ts lines 50-77
executeSecurityCheck(query) ==
  LET trimmedQuery == toLowerCase(trim(query))
      firstWord == toLowerCase(splitFirst(trim(query)))
  IN IF dangerousHits(trimmedQuery) # {}
     THEN Thrown(ValidationError(Msg(
            "Dangerous command detected: ${dangerousCmd}. This operation is not allowed for security reasons.",
            DANGEROUS_COMMANDS[Min(dangerousHits(trimmedQuery))])))
     ELSE IF firstWord = <<>> \/ firstWord \notin Range(ALLOWED_COMMANDS)
     THEN Thrown(ValidationError(Msg(
            "Command '${firstWord}' is not allowed. Allowed commands: insert, update, delete, create, alter, drop, truncate, grant, revoke",
            firstWord)))
     ELSE IF firstWord = K_select \/ startsWith(trimmedQuery, K_with)
     THEN Thrown(ValidationError(Msg(
            "SELECT and WITH statements should use the postgresql_query tool instead", <<>>)))
     ELSE Pass("execute", query)

\* handleExecute, execute.ts lines 40-80
handleExecuteGate(args) ==
  IF ExecuteParamsSchema(args) # <<>> THEN Thrown(ZodError(ExecuteParamsSchema(args)))
  ELSE executeSecurityCheck(args.query.v)

(***************************************************************************)
(* Schema tools (tools/schema.ts) and the statements the DatabaseManager   *)
(* builds (database.ts listTables / describeTable / createTable /          *)
(* testConnection).                                                        *)
(***************************************************************************)
\* "CREATE TABLE "
T_CREATE_TABLE == <<"C", "R", "E", "A", "T", "E", " ", "T", "A", "B", "L", "E", " ">>

\* "IF NOT EXISTS "
T_IF_NOT_EXISTS == <<"I", "F", " ", "N", "O", "T", " ", "E", "X", "I", "S", "T", "S", " ">>

\* "SELECT 1 as test"
Sql_probe == <<"S", "E", "L", "E", "C", "T", " ", "1", " ", "a", "s", " ", "t", "e", "s", "t">>

\* "t1"
Id_t1 == <<"t", "1">>

\* "1bad"
Id_1bad == <<"1", "b", "a", "d">>

\* "a"
Id_a == <<"a">>

\* "a b"
Id_bad_col == <<"a", " ", "b">>

\* "int"
Ty_int == <<"i", "n", "t">>

\* "int); drop role r; --"
Ty_injected == <<"i", "n", "t", ")", ";", " ", "d", "r", "o", "p", " ", "r", "o", "l", "e", " ", "r", ";", " ", "-", "-">>

Sql_listTables == <<"S", "E", "L", "E", "C", "T", " ", "t", "a", "b", "l", "e", "_", "n", "a", "m", "e", " ", "a", "s", " ", "\"", "t", "a", "b", "l", "e", "N", "a", "m", "e", "\"", ",", " ", "t", "a", "b", "l", "e", "_", "s", "c", "h", "e", "m", "a", " ", "a", "s", " ", "\"", "s", "c", "h", "e", "m", "a", "N", "a", "m", "e", "\"", ",", " ", "t", "a", "b", "l", "e", "_", "t", "y", "p", "e", " ", "a", "s", " ", "\"", "t", "a", "b", "l", "e", "T", "y", "p", "e", "\"", " ", "F", "R", "O", "M", " ", "i", "n", "f", "o", "r", "m", "a", "t", "i", "o", "n", "_", "s", "c", "h", "e", "m", "a", ".", "t", "a", "b", "l", "e", "s", " ", "W", "H", "E", "R", "E", " ", "t", "a", "b", "l", "e", "_", "s", "c", "h", "e", "m", "a", " ", "N", "O", "T", " ", "I", "N", " ", "(", "'", "i", "n", "f", "o", "r", "m", "a", "t", "i", "o", "n", "_", "s", "c", "h", "e", "m", "a", "'", ",", " ", "'", "p", "g", "_", "c", "a", "t", "a", "l", "o", "g", "'", ")", " ", "O", "R", "D", "E", "R", " ", "B", "Y", " ", "t", "a", "b", "l", "e", "_", "s", "c", "h", "e", "m", "a", ",", " ", "t", "a", "b", "l", "e", "_", "n", "a", "m", "e", ";">>

Sql_describeTable == <<"S", "E", "L", "E", "C", "T", " ", "c", "o", "l", "u", "m", "n", "_", "n", "a", "m", "e", " ", "a", "s", " ", "\"", "c", "o", "l", "u", "m", "n", "N", "a", "m", "e", "\"", ",", " ", "d", "a", "t", "a", "_", "t", "y", "p", "e", " ", "a", "s", " ", "\"", "d", "a", "t", "a", "T", "y", "p", "e", "\"", ",", " ", "i", "s", "_", "n", "u", "l", "l", "a", "b", "l", "e", " ", "=", " ", "'", "Y", "E", "S", "'", " ", "a", "s", " ", "\"", "i", "s", "N", "u", "l", "l", "a", "b", "l", "e", "\"", ",", " ", "c", "o", "l", "u", "m", "n", "_", "d", "e", "f", "a", "u", "l", "t", " ", "a", "s", " ", "\"", "c", "o", "l", "u", "m", "n", "D", "e", "f", "a", "u", "l", "t", "\"", ",", " ", "c", "h", "a", "r", "a", "c", "t", "e", "r", "_", "m", "a", "x", "i", "m", "u", "m", "_", "l", "e", "n", "g", "t", "h", " ", "a", "s", " ", "\"", "c", "h", "a", "r", "a", "c", "t", "e", "r", "M", "a", "x", "i", "m", "u", "m", "L", "e", "n", "g", "t", "h", "\"", ",", " ", "n", "u", "m", "e", "r", "i", "c", "_", "p", "r", "e", "c", "i", "s", "i", "o", "n", " ", "a", "s", " ", "\"", "n", "u", "m", "e", "r", "i", "c", "P", "r", "e", "c", "i", "s", "i", "o", "n", "\"", ",", " ", "n", "u", "m", "e", "r", "i", "c", "_", "s", "c", "a", "l", "e", " ", "a", "s", " ", "\"", "n", "u", "m", "e", "r", "i", "c", "S", "c", "a", "l", "e", "\"", " ", "F", "R", "O", "M", " ", "i", "n", "f", "o", "r", "m", "a", "t", "i", "o", "n", "_", "s", "c", "h", "e", "m", "a", ".", "c", "o", "l", "u", "m", "n", "s", " ", "W", "H", "E", "R", "E", " ", "t", "a", "b", "l", "e", "_", "n", "a", "m", "e", " ", "=", " ", "$", "1", " ", "A", "N", "D", " ", "t", "a", "b", "l", "e", "_", "s", "c", "h", "e", "m", "a", " ", "N", "O", "T", " ", "I", "N", " ", "(", "'", "i", "n", "f", "o", "r", "m", "a", "t", "i", "o", "n", "_", "s", "c", "h", "e", "m", "a", "'", ",", " ", "'", "p", "g", "_", "c", "a", "t", "a", "l", "o", "g", "'", ")", " ", "O", "R", "D", "E", "R", " ", "B", "Y", " ", "o", "r", "d", "i", "n", "a", "l", "_", "p", "o", "s", "i", "t", "i", "o", "n", ";">>

Letters == Range(UpperCase) \cup Range(LowerCase)

\* /^[a-zA-Z_][a-zA-Z0-9_]*$/.test(s)
isIdentifier(s) ==
  /\ Len(s) >= 1
  /\ s[1] \in Letters \cup {"_"}
  /\ \A i \in 2..Len(s) : s[i] \in Letters \cup Range(DecimalDigits) \cup {"_"}

RECURSIVE columnDefs(_)
\* columns.map(col => `${col.name} ${col.type}${constraints}`).join(', ')
columnDefs(columns) ==
  IF columns = <<>> THEN <<>>
  ELSE LET col == Head(columns)
           constraints == IF col.constraints.t = "string" /\ col.constraints.v # <<>>
                          THEN <<" ">> \o col.constraints.v ELSE <<>>
           def == col.name.v \o <<" ">> \o col.type.v \o constraints
       IN IF Tail(columns) = <<>> THEN def
          ELSE def \o <<",", " ">> \o columnDefs(Tail(columns))

\* DatabaseManager.createTable: the statement handed to execute()
createTableSQL(tableName, columns, ifNotExists) ==
  T_CREATE_TABLE \o (IF ifNotExists THEN T_IF_NOT_EXISTS ELSE <<>>) \o tableName
  \o <<" ", "(">> \o columnDefs(columns) \o <<")">>

\* a variant of handleCreateTableGate that validates the table name only
handleCreateTableGateTableOnly(args) ==
  IF CreateTableParamsSchema(args) # <<>> THEN Thrown(ZodError(CreateTableParamsSchema(args)))
  ELSE IF ~isIdentifier(args.tableName.v)
  THEN Thrown(ValidationError(Msg(
         "Invalid table name. Table names must start with a letter or underscore and contain only letters, numbers, and underscores.",
         <<>>)))
  ELSE Pass("execute", createTableSQL(args.tableName.v, args.columns.v,
              IF args.ifNotExists.t = "boolean" THEN args.ifNotExists.v ELSE TRUE))

\* handleCreateTable, schema tools lines 18-49
handleCreateTableGate(args) ==
  IF CreateTableParamsSchema(args) # <<>> THEN Thrown(ZodError(CreateTableParamsSchema(args)))
  ELSE IF ~isIdentifier(args.tableName.v)
  THEN Thrown(ValidationError(Msg(
         "Invalid table name. Table names must start with a letter or underscore and contain only letters, numbers, and underscores.",
         <<>>)))
  ELSE LET bad == {i \in 1..Len(args.columns.v) : ~isIdentifier(args.columns.v[i].name.v)}
       IN IF bad # {}
          THEN Thrown(ValidationError(Msg(
                 "Invalid column name '${column.name}'. Column names must start with a letter or underscore and contain only letters, numbers, and underscores.",
                 args.columns.v[Min(bad)].name.v)))
          ELSE Pass("execute", createTableSQL(args.tableName.v, args.columns.v,
                      IF args.ifNotExists.t = "boolean" THEN args.ifNotExists.v ELSE TRUE))

\* handleDescribeTable, schema tools lines 109-125
handleDescribeTableGate(args) ==
  IF DescribeTableParamsSchema(args) # <<>>
  THEN Thrown(ZodError(DescribeTableParamsSchema(args)))
  ELSE IF ~isIdentifier(args.tableName.v)
  THEN Thrown(ValidationError(Msg(
         "Invalid table name. Table names must start with a letter or underscore and contain only letters, numbers, and underscores.",
         <<>>)))
  ELSE Pass("query", Sql_describeTable)

\* handleListTables, schema tools lines 205-209
handleListTablesGate == Pass("query", Sql_listTables)

ToolNames ==
  {"postgresql_query", "postgresql_execute", "postgresql_create_table",
   "postgresql_describe_table", "postgresql_list_tables"}

\* the switch of the call handler, index.ts lines 114-138
Gate(name, args) ==
  CASE name = "postgresql_query" -> handleQueryGate(args)
    [] name = "postgresql_execute" -> handleExecuteGate(args)
    [] name = "postgresql_create_table" -> handleCreateTableGate(args)
    [] name = "postgresql_describe_table" -> handleDescribeTableGate(args)
    [] name = "postgresql_list_tables" -> handleListTablesGate
    [] OTHER -> Thrown(PlainError(Msg("Unknown tool: ${name}", <<>>), ""))

(***************************************************************************)
(* DatabaseManager.query / execute after the statement has settled, and    *)
(* the handlers' rendering of results and errors.                          *)
(***************************************************************************)
\* Array.prototype.slice(start, end) for 0 <= start <= end
slice(a, start, end) == SubSeq(a, start + 1, Min({end, Len(a)}))

\* "UNKNOWN"
T_UNKNOWN == <<"U", "N", "K", "N", "O", "W", "N">>

\* a variant of queryResult that keeps the last maxRows rows
queryResultTail(result, maxRows) ==
  [rows |-> slice(result.rows, Max({0, Len(result.rows) - maxRows}), Len(result.rows)),
   rowCount |-> result.rowCount, fields |-> result.fields]

\* DatabaseManager.query, database.ts lines 141-151: the QueryResult returned
queryResult(result, maxRows) ==
  [rows |-> slice(result.rows, 0, maxRows), rowCount |-> result.rowCount,
   fields |-> result.fields]

\* database.ts lines 143-145: whether logger.warn is called
queryWarns(result, maxRows) == Len(result.rows) > maxRows

\* DatabaseManager.execute, database.ts lines 189-192: the ExecuteResult returned
executeResult(result) ==
  [rowCount |-> result.rowCount,
   command |-> IF result.command # <<>> THEN result.command ELSE T_UNKNOWN]

\* database.ts lines 152-164 and 193-205: the catch block of query() and execute()
wrapDriverError(error) == DatabaseError(error.message, error.code, error.detail)

\* an engine failure as the driver throws it from client.query
EngineError ==
  [type |-> "Error", message |-> Msg("relation \"t\" does not exist", <<>>), code |-> "42P01",
   detail |-> "engine detail", issues |-> <<>>]

\* the driver's error when query_timeout expires
QueryTimeoutError == PlainError(Msg("Query read timeout", <<>>), "")

\* the driver's error when a connection attempt fails
ConnectError == PlainError(Msg("connect ECONNREFUSED", <<>>), "ECONNREFUSED")

\* pool.connect() after pool.end()
PoolEndedError == PlainError(Msg("Cannot use a pool after calling end on the pool", <<>>), "")

\* the display limit of handleQuery, query.ts line 51
DisplayLimit == 100

\* a variant of renderQuery that renders a table whatever the number of rows
renderQueryAlwaysTable(result) ==
  LET maxRows == Min({Len(result.rows), DisplayLimit})
  IN [content |->
        [text |-> "Query executed successfully. Returned ${result.rowCount} row(s).",
         rowCount |-> result.rowCount,
         table |-> result.fields > 0,
         dataRows |-> slice(result.rows, 0, maxRows),
         more |-> IF Len(result.rows) > maxRows THEN Len(result.rows) - maxRows ELSE 0]]

\* a variant of renderQuery that renders every row
renderQueryUncapped(result) ==
  IF Len(result.rows) = 0
  THEN [content |-> [text |-> "Query executed successfully but returned no rows."]]
  ELSE [content |->
          [text |-> "Query executed successfully. Returned ${result.rowCount} row(s).",
           rowCount |-> result.rowCount,
           table |-> result.fields > 0,
           dataRows |-> result.rows,
           more |-> 0]]

\* handleQuery, query.ts lines 43-92
renderQuery(result) ==
  IF Len(result.rows) = 0
  THEN [content |-> [text |-> "Query executed successfully but returned no rows."]]
  ELSE LET maxRows == Min({Len(result.rows), DisplayLimit})
       IN [content |->
             [text |-> "Query executed successfully. Returned ${result.rowCount} row(s).",
              rowCount |-> result.rowCount,
              table |-> result.fields > 0,
              dataRows |-> slice(result.rows, 0, maxRows),
              more |-> IF Len(result.rows) > maxRows THEN Len(result.rows) - maxRows ELSE 0]]

\* a variant of renderExecute whose switch is on result.command as the engine wrote it
renderExecuteCaseSensitive(result) ==
  LET command == result.command
      sentence ==
        CASE command = K_insert -> "INSERT operation completed successfully. ${result.rowCount} row(s) inserted."
          [] command = K_update -> "UPDATE operation completed successfully. ${result.rowCount} row(s) updated."
          [] command = K_delete -> "DELETE operation completed successfully. ${result.rowCount} row(s) deleted."
          [] command = K_create -> "CREATE operation completed successfully."
          [] command = K_alter -> "ALTER operation completed successfully."
          [] command = K_drop -> "DROP operation completed successfully."
          [] command = K_truncate -> "TRUNCATE operation completed successfully. All rows removed from table."
          [] command = K_grant -> "GRANT operation completed successfully. Permissions granted."
          [] command = K_revoke -> "REVOKE operation completed successfully. Permissions revoked."
          [] OTHER -> "${result.command} operation completed successfully. ${result.rowCount} row(s) affected."
  IN [content |-> [text |-> sentence, command |-> result.command, rowCount |-> result.rowCount]]

\* handleExecute, execute.ts lines 87-129: the switch on result.command.toLowerCase()
renderExecute(result) ==
  LET command == toLowerCase(result.command)
      sentence ==
        CASE command = K_insert -> "INSERT operation completed successfully. ${result.rowCount} row(s) inserted."
          [] command = K_update -> "UPDATE operation completed successfully. ${result.rowCount} row(s) updated."
          [] command = K_delete -> "DELETE operation completed successfully. ${result.rowCount} row(s) deleted."
          [] command = K_create -> "CREATE operation completed successfully."
          [] command = K_alter -> "ALTER operation completed successfully."
          [] command = K_drop -> "DROP operation completed successfully."
          [] command = K_truncate -> "TRUNCATE operation completed successfully. All rows removed from table."
          [] command = K_grant -> "GRANT operation completed successfully. Permissions granted."
          [] command = K_revoke -> "REVOKE operation completed successfully. Permissions revoked."
          [] OTHER -> "${result.command} operation completed successfully. ${result.rowCount} row(s) affected."
  IN [content |-> [text |-> sentence, command |-> result.command, rowCount |-> result.rowCount]]

\* handleCreateTable, schema tools lines 56-65
renderCreateTable(args) ==
  [content |-> [text |-> "Table '${params.tableName}' created successfully with ${params.columns.length} column(s).",
                tableName |-> args.tableName.v, columns |-> Len(args.columns.v)]]

\* handleDescribeTable, schema tools lines 127-165
renderDescribeTable(args, result) ==
  IF Len(result.rows) = 0
  THEN [content |-> [text |-> "Table '${params.tableName}' not found or has no columns.",
                     tableName |-> args.tableName.v]]
  ELSE [content |-> [text |-> "Table '${params.tableName}' structure:",
                     tableName |-> args.tableName.v, dataRows |-> result.rows]]

\* handleListTables, schema tools lines 215-242
renderListTables(result) ==
  IF Len(result.rows) = 0
  THEN [content |-> [text |-> "No tables found in the database."]]
  ELSE [content |-> [text |-> "Found ${tables.length} table(s) in the database:",
                     count |-> Len(result.rows), dataRows |-> result.rows]]

\* the handler's text for a value its DatabaseManager call returned
render(name, args, value) ==
  CASE name = "postgresql_query" -> renderQuery(value)
    [] name = "postgresql_execute" -> renderExecute(value)
    [] name = "postgresql_create_table" -> renderCreateTable(args)
    [] name = "postgresql_describe_table" -> renderDescribeTable(args, value)
    [] OTHER -> renderListTables(value)

\* the catch blocks of the five handlers: the error response, with isError: true
handlerCatch(name, error) ==
  LET known == IF name = "postgresql_list_tables"
               THEN {"DatabaseError"}
               ELSE {"ValidationError", "DatabaseError", "ZodError"}
      prefix == IF error.type \notin known THEN "Unexpected Error: "
                ELSE CASE error.type = "ValidationError" -> "Validation Error: "
                       [] error.type = "DatabaseError" -> "Database Error: "
                       [] OTHER -> "Input Validation Error: "
  IN [content |->
        [text |-> prefix,
         message |-> error.message,
         code |-> IF error.type = "DatabaseError" THEN error.code ELSE "",
         detail |-> IF error.type = "DatabaseError"
                       /\ name \in {"postgresql_query", "postgresql_execute", "postgresql_create_table"}
                    THEN error.detail ELSE "",
         issues |-> IF error.type = "ZodError" /\ error.type \in known THEN error.issues ELSE <<>>],
      isError |-> TRUE]

\* index.ts lines 140-147: what the call handler returns for a handler's response
callToolReturn(response) == [content |-> response.content]

\* a variant of callToolCatch that throws the error again
callToolCatchRethrow(error) == [rejected |-> error]

\* index.ts lines 148-161: the call handler's own catch block
callToolCatch(error) ==
  [content |-> [text |-> "Tool execution failed: ", message |-> error.message]]

(***************************************************************************)
(* Bounds of the model and the inputs the callers and the engine supply.   *)
(***************************************************************************)
\* config.poolMax: the most clients the pool holds; fewer than the calls in flight, so
\* that calls find the pool exhausted
PoolMax == 1

\* remote calls in flight at once
MaxInFlight == 2

\* the largest result set the engine answers with
MaxResultRows == 3

\* config.maxRows is drawn from 1..MaxRowsCfg
MaxRowsCfg == 2

\* the caller id of testConnection(); remote calls use 1..MaxInFlight
Probe == 0

Callers == 0..MaxInFlight

\* the clients the pool can tell apart: one more than it may hold
ClientIds == 1..(PoolMax + 1)

\* the two listeners a signal has: index.ts lines 168-176 and lines 237-244
Handlers == {"module", "main"}

QArgs(query, params) == [t |-> "object", query |-> query, params |-> params]

Col(name, type) == [name |-> Str(name), type |-> Str(type), constraints |-> Undefined]

CArgs(tableName, columns) ==
  [t |-> "object", tableName |-> tableName, columns |-> columns, ifNotExists |-> Undefined]

DArgs(tableName) == [t |-> "object", tableName |-> tableName]

\* the requests a remote caller sends: the tool name and its arguments
Requests ==
  {[name |-> n, args |-> QArgs(Str(s), Undefined)] :
     n \in {"postgresql_query", "postgresql_execute"}, s \in Statements}
  \cup {[name |-> n, args |-> a] :
     n \in {"postgresql_query", "postgresql_execute"},
     a \in {Undefined, QArgs(Str(<<>>), Undefined), QArgs(Num(1), Num(1)),
            QArgs(Undefined, Undefined), QArgs(Str(Sql_dropDatabase), Num(1))}}
  \cup {[name |-> "postgresql_create_table", args |-> a] :
     a \in {CArgs(Str(Id_t1), Arr(<<Col(Id_a, Ty_int)>>)),
            CArgs(Str(Id_1bad), Arr(<<Col(Id_a, Ty_int)>>)),
            CArgs(Str(Id_t1), Arr(<<Col(Id_a, Ty_int), Col(Id_bad_col, Ty_int)>>)),
            CArgs(Str(Id_t1), Arr(<<Col(Id_a, Ty_injected)>>)),
            CArgs(Str(Id_t1), Arr(<<>>)),
            CArgs(Undefined, Arr(<<>>)),
            CArgs(Str(Id_1bad), Arr(<<>>))}}
  \cup {[name |-> "postgresql_describe_table", args |-> a] :
     a \in {DArgs(Str(Id_t1)), DArgs(Str(Id_1bad)), DArgs(Undefined)}}
  \cup {[name |-> "postgresql_list_tables", args |-> Undefined],
        [name |-> "postgresql_drop_table", args |-> Undefined]}

\* one request of each kind, for the runs with concurrent calls
CoreRequests ==
  {[name |-> "postgresql_query", args |-> QArgs(Str(Sql_select1), Undefined)],
   [name |-> "postgresql_query", args |-> QArgs(Str(Sql_insert), Undefined)],
   [name |-> "postgresql_execute", args |-> QArgs(Str(Sql_insert), Undefined)]}

\* Gate, evaluated once for every request
GateOf == [req \in Requests |-> Gate(req.name, req.args)]

\* "INSERT"
T_INSERT == <<"I", "N", "S", "E", "R", "T">>

\* "SELECT"
T_SELECT == <<"S", "E", "L", "E", "C", "T">>

\* String.prototype.toUpperCase
toUpperCase(s) ==
  [i \in 1..Len(s) |->
     IF \E j \in 1..26 : LowerCase[j] = s[i]
     THEN UpperCase[CHOOSE j \in 1..26 : LowerCase[j] = s[i]]
     ELSE s[i]]

\* the command tags the engine answers the statements of execute() with: those of
\* the nine verbs handleExecute has a sentence for, "SELECT" (the tag of CREATE TABLE
\* ... AS SELECT) and none
CommandTags ==
  {toUpperCase(verb) : verb \in Range(ALLOWED_COMMANDS)} \cup {T_SELECT, <<>>}

\* what the engine answers a statement with: pg's QueryResult
EngineResults(method) ==
  IF method = "query"
  THEN {[rows |-> [i \in 1..n |-> i], rowCount |-> n, fields |-> 1, command |-> T_SELECT] :
          n \in 0..MaxResultRows}
  ELSE {[rows |-> <<>>, rowCount |-> 1, fields |-> 0, command |-> cmd] : cmd \in CommandTags}

\* results with as many rows as handleQuery displays, and one more: they differ from
\* the small ones only when config.maxRows lets that many rows through
LargeResults(method, rowsCap) ==
  IF method = "query" /\ rowsCap > DisplayLimit
  THEN {[rows |-> [i \in 1..n |-> i], rowCount |-> n, fields |-> f, command |-> T_SELECT] :
          n \in {DisplayLimit, DisplayLimit + 1}, f \in {0, 1}}
  ELSE {}

\* what client.query rejects with: an engine error, or the query_timeout
StatementErrors == {EngineError, QueryTimeoutError}

(***************************************************************************)
(* Configuration: parseConnectionString (index.ts) and                     *)
(* DatabaseManager.loadConfig with the schema it validates against.        *)
(***************************************************************************)
\* "postgresql://"
T_postgresql == <<"p", "o", "s", "t", "g", "r", "e", "s", "q", "l", ":", "/", "/">>

\* "postgres://"
T_postgres == <<"p", "o", "s", "t", "g", "r", "e", "s", ":", "/", "/">>

\* "postgresql://u:p@h:6000/d"
Url_full == <<"p", "o", "s", "t", "g", "r", "e", "s", "q", "l", ":", "/", "/", "u", ":", "p", "@", "h", ":", "6", "0", "0", "0", "/", "d">>

\* "postgresql://u:p@h/d"
Url_noPort == <<"p", "o", "s", "t", "g", "r", "e", "s", "q", "l", ":", "/", "/", "u", ":", "p", "@", "h", "/", "d">>

\* "postgres://h"
Url_hostOnly == <<"p", "o", "s", "t", "g", "r", "e", "s", ":", "/", "/", "h">>

\* "postgresql://h:x/d"
Url_badPort == <<"p", "o", "s", "t", "g", "r", "e", "s", "q", "l", ":", "/", "/", "h", ":", "x", "/", "d">>

\* "--v"
Arg_other == <<"-", "-", "v">>

\* "localhost"
T_localhost == <<"l", "o", "c", "a", "l", "h", "o", "s", "t">>

\* "postgres"
T_postgresName == <<"p", "o", "s", "t", "g", "r", "e", "s">>

\* "true"
T_true == <<"t", "r", "u", "e">>

\* "Invalid URL"
T_InvalidURL == <<"I", "n", "v", "a", "l", "i", "d", " ", "U", "R", "L">>

\* "5432"
T_5432 == <<"5", "4", "3", "2">>

\* "30000"
T_30000 == <<"3", "0", "0", "0", "0">>

\* "2"
T_2 == <<"2">>

\* "10"
T_10 == <<"1", "0">>

\* "1000"
T_1000 == <<"1", "0", "0", "0">>

\* "eh"
Env_host == <<"e", "h">>

\* "ed"
Env_database == <<"e", "d">>

\* "eu"
Env_user == <<"e", "u">>

\* "ep"
Env_password == <<"e", "p">>

\* "6543"
Env_6543 == <<"6", "5", "4", "3">>

\* "abc"
Env_abc == <<"a", "b", "c">>

\* "12abc"
Env_12abc == <<"1", "2", "a", "b", "c">>

\* "7"
Env_7 == <<"7">>

\* "20"
Env_20 == <<"2", "0">>

\* "0"
Env_0 == <<"0">>

\* "-1"
Env_minus1 == <<"-", "1">>

\* the number NaN
NaN == [t |-> "nan"]

\* the value of a decimal digit
digitValue(ch) == (CHOOSE i \in 1..10 : DecimalDigits[i] = ch) - 1

RECURSIVE digitsValue(_)
\* the number a string of decimal digits denotes
digitsValue(d) ==
  IF d = <<>> THEN 0
  ELSE digitsValue(SubSeq(d, 1, Len(d) - 1)) * 10 + digitValue(d[Len(d)])

\* parseInt(s, 10): leading whitespace, an optional sign, then the longest run of
\* digits; NaN when there is no digit
parseInt(s) ==
  LET t == trim(s)
      signed == t # <<>> /\ t[1] \in {"+", "-"}
      u == IF signed THEN Tail(t) ELSE t
      stop == {i \in 1..Len(u) : u[i] \notin Range(DecimalDigits)}
      digits == IF stop = {} THEN u ELSE SubSeq(u, 1, Min(stop) - 1)
  IN IF digits = <<>> THEN NaN
     ELSE Num(IF signed /\ t[1] = "-" THEN 0 - digitsValue(digits) ELSE digitsValue(digits))

\* the first position of ch in s, 0 when s has no ch
firstIndexOf(s, ch) ==
  IF \E i \in 1..Len(s) : s[i] = ch THEN Min({i \in 1..Len(s) : s[i] = ch}) ELSE 0

\* the last position of ch in s, 0 when s has no ch
lastIndexOf(s, ch) ==
  IF \E i \in 1..Len(s) : s[i] = ch THEN Max({i \in 1..Len(s) : s[i] = ch}) ELSE 0

\* new URL(input) for scheme://[username[:password]@]hostname[:port][/path], a scheme
\* that is not special: the parsed fields, or the TypeError it throws
URL(input) ==
  LET sep == Min({i \in 1..(Len(input) - 2) : SubSeq(input, i, i + 2) = <<":", "/", "/">>})
      rest == SubSeq(input, sep + 3, Len(input))
      slash == firstIndexOf(rest, "/")
      authority == IF slash = 0 THEN rest ELSE SubSeq(rest, 1, slash - 1)
      pathname == IF slash = 0 THEN <<>> ELSE SubSeq(rest, slash, Len(rest))
      at == lastIndexOf(authority, "@")
      userinfo == IF at = 0 THEN <<>> ELSE SubSeq(authority, 1, at - 1)
      hostport == SubSeq(authority, at + 1, Len(authority))
      ucolon == firstIndexOf(userinfo, ":")
      hcolon == lastIndexOf(hostport, ":")
      hostname == IF hcolon = 0 THEN hostport ELSE SubSeq(hostport, 1, hcolon - 1)
      port == IF hcolon = 0 THEN <<>> ELSE SubSeq(hostport, hcolon + 1, Len(hostport))
  IN IF \/ \E i \in 1..Len(port) : port[i] \notin Range(DecimalDigits)
        \/ \E i \in 1..Len(hostname) : hostname[i] \in Whitespace
     THEN [ok |-> FALSE, message |-> T_InvalidURL]
     ELSE IF digitsValue(port) > 65535
     THEN [ok |-> FALSE, message |-> T_InvalidURL]
     ELSE [ok |-> TRUE,
           hostname |-> hostname,
           port |-> port,
           pathname |-> pathname,
           username |-> IF ucolon = 0 THEN userinfo ELSE SubSeq(userinfo, 1, ucolon - 1),
           password |-> IF ucolon = 0 THEN <<>>
                        ELSE SubSeq(userinfo, ucolon + 1, Len(userinfo))]

\* parseConnectionString, index.ts lines 29-40: the first argument that starts with
\* postgresql:// or postgres://
parseConnectionString(args) ==
  LET found == {i \in 1..Len(args) :
                  startsWith(args[i], T_postgresql) \/ startsWith(args[i], T_postgres)}
  IN IF found = {} THEN Undefined ELSE Str(args[Min(found)])

\* a value that is falsy: undefined, NaN, the empty string, 0
falsy(v) ==
  \/ v.t \in {"undefined", "nan"}
  \/ v.t = "string" /\ v.v = <<>>
  \/ v.t = "number" /\ v.v = 0

\* a || b
or(a, b) == IF falsy(a) THEN b ELSE a

\* loadConfig lines 36 and 40-46: parsedConnection, without and with a parsed URL
noConnection ==
  [host |-> Undefined, port |-> Undefined, database |-> Undefined, user |-> Undefined,
   password |-> Undefined]

parsedConnection(url) ==
  [host |-> Str(url.hostname),
   port |-> IF url.port # <<>> THEN parseInt(url.port) ELSE Num(5432),
   database |-> Str(slice(url.pathname, 1, Len(url.pathname))),
   user |-> Str(url.username),
   password |-> Str(url.password)]

\* the environment variables loadConfig reads into fields the schema keeps
EnvNames ==
  {"POSTGRES_HOST", "POSTGRES_PORT", "POSTGRES_DATABASE", "POSTGRES_USER",
   "POSTGRES_PASSWORD", "POSTGRES_SSL", "POSTGRES_QUERY_TIMEOUT", "POSTGRES_POOL_MIN",
   "POSTGRES_POOL_MAX", "POSTGRES_POOL_IDLE_TIMEOUT", "POSTGRES_MAX_ROWS"}

\* loadConfig lines 59-75: rawConfig, the fields DatabaseConfigSchema keeps (it strips
\* sslRejectUnauthorized, connectionTimeoutMillis, maxConnections, idleTimeoutMillis)
rawConfig(parsed, env) ==
  [host |-> or(or(parsed.host, env["POSTGRES_HOST"]), Str(T_localhost)),
   port |-> or(parsed.port, parseInt(or(env["POSTGRES_PORT"], Str(T_5432)).v)),
   database |-> or(or(parsed.database, env["POSTGRES_DATABASE"]), Str(T_postgresName)),
   user |-> or(or(parsed.user, env["POSTGRES_USER"]), Str(T_postgresName)),
   password |-> or(parsed.password, env["POSTGRES_PASSWORD"]),
   ssl |-> env["POSTGRES_SSL"] = Str(T_true),
   queryTimeout |-> parseInt(or(env["POSTGRES_QUERY_TIMEOUT"], Str(T_30000)).v),
   poolMin |-> parseInt(or(env["POSTGRES_POOL_MIN"], Str(T_2)).v),
   poolMax |-> parseInt(or(env["POSTGRES_POOL_MAX"], Str(T_10)).v),
   poolIdleTimeout |-> parseInt(or(env["POSTGRES_POOL_IDLE_TIMEOUT"], Str(T_30000)).v),
   maxRows |-> parseInt(or(env["POSTGRES_MAX_ROWS"], Str(T_1000)).v)]

\* z.number().int().positive()
zPositiveInt(path, v) ==
  IF v.t # "number" THEN <<Issue(path, "Expected number, received nan")>>
  ELSE IF v.v <= 0 THEN <<Issue(path, "Number must be greater than 0")>>
  ELSE <<>>

\* DatabaseConfigSchema.parse(rawConfig): the issues it throws with; host, database and
\* user are strings and password is a string or undefined, whatever the inputs
DatabaseConfigSchema(raw) ==
  zPositiveInt(<<"port">>, raw.port)
  \o zPositiveInt(<<"poolMin">>, raw.poolMin)
  \o zPositiveInt(<<"poolMax">>, raw.poolMax)
  \o zPositiveInt(<<"poolIdleTimeout">>, raw.poolIdleTimeout)
  \o zPositiveInt(<<"queryTimeout">>, raw.queryTimeout)
  \o zPositiveInt(<<"maxRows">>, raw.maxRows)

\* a variant of loadConfig that goes on without the connection string when it
\* cannot be parsed
loadConfigLenient(connectionString, env) ==
  LET raw == rawConfig(IF falsy(connectionString) \/ ~URL(connectionString.v).ok
                       THEN noConnection
                       ELSE parsedConnection(URL(connectionString.v)), env)
  IN IF DatabaseConfigSchema(raw) # <<>>
     THEN [ok |-> FALSE,
           error |-> DatabaseError(Msg("Invalid database configuration", <<>>), "", "")]
     ELSE [ok |-> TRUE, config |-> raw]

\* DatabaseManager.loadConfig, database.ts lines 32-83: the configuration, or the
\* error thrown
loadConfig(connectionString, env) ==
  IF ~falsy(connectionString) /\ ~URL(connectionString.v).ok
  THEN [ok |-> FALSE,
        error |-> PlainError(Msg("Invalid connection string: ${error.message}",
                                 URL(connectionString.v).message), "")]
  ELSE LET raw == rawConfig(IF falsy(connectionString) THEN noConnection
                            ELSE parsedConnection(URL(connectionString.v)), env)
       IN IF DatabaseConfigSchema(raw) # <<>>
          THEN [ok |-> FALSE,
                error |-> DatabaseError(Msg("Invalid database configuration", <<>>), "", "")]
          ELSE [ok |-> TRUE, config |-> raw]

(***************************************************************************)
(* State.                                                                  *)
(***************************************************************************)
VARIABLES
  boot,           \* the module's construction of the DatabaseManager, index.ts lines 53-65
  maxRows,        \* config.maxRows
  pool,           \* the pg Pool: its clients, its pending queue, ending / ended
  call,           \* per caller: the call in flight or the last one returned
  mainPc,         \* main(): "start", "probing", "connected", "serving"
  probeResult,    \* what testConnection() returned: "none", "true", "false"
  signal,         \* the signal delivered: "none", "SIGINT", "SIGTERM"
  deadlinePassed, \* Date.now() - startTime >= shutdownTimeout
  sd,             \* per signal listener: its run of gracefulShutdown
  exited          \* "no", or the code process.exit was called with

vars == <<boot, maxRows, pool, call, mainPc, probeResult, signal, deadlinePassed, sd, exited>>

(***************************************************************************)
(* The pg Pool, as DatabaseManager uses it: connect, release, end, and the *)
(* totalCount / idleCount getters.                                         *)
(***************************************************************************)
\* pool.totalCount
totalCount(p) == Cardinality({k \in ClientIds : p.state[k] # "none"})

\* pool.idleCount
idleCount(p) == Cardinality({k \in ClientIds : p.state[k] = "idle"})

\* once ending, the pool drops its idle clients and has ended when none is left
pulseEnding(p) ==
  IF ~p.ending THEN p
  ELSE LET st == [k \in ClientIds |-> IF p.state[k] = "idle" THEN "none" ELSE p.state[k]]
       IN [p EXCEPT !.state = st, !.ended = \A k \in ClientIds : st[k] = "none"]

\* a new client is created for caller c and starts to connect
newClient(p, c) ==
  LET k == Min({i \in ClientIds : p.state[i] = "none"})
  IN [p EXCEPT !.state[k] = "connecting", !.owner[k] = c]

\* a variant of poolConnect that creates a client whenever none is idle
poolConnectUnbounded(p, c) ==
  IF p.ending THEN [pool |-> p, rejected |-> TRUE]
  ELSE IF idleCount(p) > 0
  THEN [pool |-> [p EXCEPT !.pending = Append(@, c)], rejected |-> FALSE]
  ELSE [pool |-> newClient(p, c), rejected |-> FALSE]

\* pool.connect() by caller c, createPool passes no connectionTimeoutMillis:
\* rejected after end(); queued when the pool is full or has an idle client
poolConnect(p, c) ==
  IF p.ending THEN [pool |-> p, rejected |-> TRUE]
  ELSE IF totalCount(p) >= PoolMax \/ idleCount(p) > 0
  THEN [pool |-> [p EXCEPT !.pending = Append(@, c)], rejected |-> FALSE]
  ELSE [pool |-> newClient(p, c), rejected |-> FALSE]

\* client.release() of client k
clientRelease(p, k) ==
  IF p.ending
  THEN pulseEnding([p EXCEPT !.state[k] = "none", !.owner[k] = 0])
  ELSE [p EXCEPT !.state[k] = "idle", !.owner[k] = 0]

\* pool.end(): rejected when called a second time, else pending until ended
poolEnd(p) ==
  IF p.ending THEN [pool |-> [p EXCEPT !.endCalls = @ + 1], rejected |-> TRUE]
  ELSE [pool |-> pulseEnding([p EXCEPT !.ending = TRUE, !.endCalls = @ + 1]),
        rejected |-> FALSE]

(***************************************************************************)
(* A call: from the call handler (or testConnection) through               *)
(* DatabaseManager.query / execute back to the caller.                     *)
(***************************************************************************)
None == [none |-> TRUE]

\* pc: "idle", "acquiring" (awaiting pool.connect), "executing" (awaiting client.query),
\* "returned"; method / text: the DatabaseManager method entered and its statement;
\* engine: what the driver answered; db: what the handler's try block ended with (the
\* value returned to it or the error thrown); response: the handler's MCPToolResponse;
\* envelope: what the call handler returned to the remote caller
IdleCall ==
  [pc |-> "idle", name |-> "", args |-> Undefined, method |-> "", text |-> <<>>,
   client |-> 0, acquired |-> FALSE, releases |-> 0, engine |-> None, db |-> None,
   warned |-> 0, response |-> None, envelope |-> None]

\* the handler's (or testConnection's) processing of what its DatabaseManager call
\* returned or threw, and the call handler's return, index.ts lines 140-147
finishCall(cl) ==
  IF cl.name = "testConnection"
  THEN \* testConnection, lines 258-267: the result or the error is dropped for a boolean
       [cl EXCEPT !.pc = "returned", !.engine = None, !.warned = 0, !.db = [kind |-> cl.db.kind]]
  ELSE LET response == IF cl.db.kind = "returned"
                       THEN render(cl.name, cl.args, cl.db.value)
                       ELSE handlerCatch(cl.name, cl.db.error)
       IN [cl EXCEPT !.pc = "returned", !.response = response,
                     !.envelope = callToolReturn(response)]

\* query() / execute() entered: line 124 / 171, const client = await this.pool.connect(),
\* which is outside the try block: its rejection leaves the method as it is
dbEnter(p, c, cl) ==
  LET r == poolConnect(p, c)
  IN IF r.rejected
     THEN [pool |-> r.pool,
           call |-> finishCall([cl EXCEPT !.engine = PoolEndedError,
                                          !.db = [kind |-> "threw", error |-> PoolEndedError]])]
     ELSE [pool |-> r.pool, call |-> [cl EXCEPT !.pc = "acquiring"]]

\* query() lines 133-164 / execute() lines 180-205: try and catch, ans is what
\* client.query settled with
dbTryCatch(cl, ans, rowsCap) ==
  IF ans.ok
  THEN [cl EXCEPT
          !.engine = ans.result,
          !.db = [kind |-> "returned",
                  value |-> IF cl.method = "query" THEN queryResult(ans.result, rowsCap)
                            ELSE executeResult(ans.result)],
          !.warned = IF cl.method = "query" /\ queryWarns(ans.result, rowsCap) THEN 1 ELSE 0]
  ELSE [cl EXCEPT !.engine = ans.error,
                  !.db = [kind |-> "threw", error |-> wrapDriverError(ans.error)]]

\* a variant of dbFinally that releases the client only when the statement succeeded
dbFinallyOnSuccess(p, cl) ==
  IF cl.db.kind = "returned"
  THEN [pool |-> clientRelease(p, cl.client),
        call |-> [cl EXCEPT !.releases = @ + 1, !.client = 0]]
  ELSE [pool |-> p, call |-> [cl EXCEPT !.client = 0]]

\* query() lines 165-167 / execute() lines 206-208: finally { client.release() }
dbFinally(p, cl) ==
  [pool |-> clientRelease(p, cl.client),
   call |-> [cl EXCEPT !.releases = @ + 1, !.client = 0]]

\* a variant of MainAfter in which testConnection() throws what query() threw
MainAfterProbeThrows(c, cl) ==
  IF c = Probe
  THEN /\ mainPc' = "connected"
       /\ probeResult' = IF cl.db.kind = "returned" THEN "true" ELSE "none"
  ELSE UNCHANGED <<mainPc, probeResult>>

\* main() after testConnection() has returned: lines 214-229, server.connect(transport)
MainAfter(c, cl) ==
  IF c = Probe
  THEN /\ mainPc' = "connected"
       /\ probeResult' = IF cl.db.kind = "returned" THEN "true" ELSE "false"
  ELSE UNCHANGED <<mainPc, probeResult>>

Running == exited = "no"

\* a variant of MainStart in which main() does not await testConnection() before
\* server.connect(transport)
MainStartUnawaited ==
  /\ Running /\ mainPc = "start" /\ boot.pc = "constructed"
  /\ LET r == dbEnter(pool, Probe,
                [IdleCall EXCEPT !.name = "testConnection", !.method = "query", !.text = Sql_probe])
     IN /\ pool' = r.pool
        /\ call' = [call EXCEPT ![Probe] = r.call]
        /\ mainPc' = "connected"
        /\ probeResult' = IF r.call.pc = "returned" THEN "false" ELSE probeResult
  /\ UNCHANGED <<boot, maxRows, signal, deadlinePassed, sd, exited>>

\* main() up to await db.testConnection(): query('SELECT 1 as test') is entered
MainStart ==
  /\ Running /\ mainPc = "start" /\ boot.pc = "constructed"
  /\ LET r == dbEnter(pool, Probe,
                [IdleCall EXCEPT !.name = "testConnection", !.method = "query", !.text = Sql_probe])
     IN /\ pool' = r.pool
        /\ call' = [call EXCEPT ![Probe] = r.call]
        /\ IF r.call.pc = "returned"
           THEN mainPc' = "connected" /\ probeResult' = "false"
           ELSE mainPc' = "probing" /\ UNCHANGED probeResult
  /\ UNCHANGED <<boot, maxRows, signal, deadlinePassed, sd, exited>>

\* main() lines 234-244: the second pair of signal listeners is registered
MainRegister ==
  /\ Running /\ mainPc = "connected"
  /\ mainPc' = "serving"
  /\ UNCHANGED <<boot, maxRows, pool, call, probeResult, signal, deadlinePassed, sd, exited>>

\* the CallToolRequestSchema handler, index.ts lines 103-163, with the tool handler
\* it awaits, up to the handler's first await
CallTool(c, req) ==
  /\ Running /\ mainPc \in {"connected", "serving"}
  /\ c # Probe /\ call[c].pc \in {"idle", "returned"}
  /\ LET g == GateOf[req]
         cl == [IdleCall EXCEPT !.name = req.name, !.args = req.args]
     IN IF ~g.pass
        THEN /\ call' = [call EXCEPT ![c] =
                  IF req.name \in ToolNames
                  THEN finishCall([cl EXCEPT !.db = [kind |-> "threw", error |-> g.error]])
                  ELSE [cl EXCEPT !.pc = "returned",
                                  !.db = [kind |-> "threw", error |-> g.error],
                                  !.envelope = callToolCatch(g.error)]]
             /\ UNCHANGED pool
        ELSE LET r == dbEnter(pool, c, [cl EXCEPT !.method = g.method, !.text = g.text])
             IN pool' = r.pool /\ call' = [call EXCEPT ![c] = r.call]
  /\ UNCHANGED <<boot, maxRows, mainPc, probeResult, signal, deadlinePassed, sd, exited>>

\* the pool serves the head of its pending queue with idle client k
PulseIdle(k) ==
  /\ Running /\ ~pool.ending /\ pool.pending # <<>> /\ pool.state[k] = "idle"
  /\ LET c == Head(pool.pending)
     IN /\ pool' = [pool EXCEPT !.pending = Tail(@), !.state[k] = "busy", !.owner[k] = c]
        /\ call' = [call EXCEPT ![c].pc = "executing", ![c].client = k, ![c].acquired = TRUE]
  /\ UNCHANGED <<boot, maxRows, mainPc, probeResult, signal, deadlinePassed, sd, exited>>

\* the pool serves the head of its pending queue with a new client
PulseNew ==
  /\ Running /\ ~pool.ending /\ pool.pending # <<>>
  /\ idleCount(pool) = 0 /\ totalCount(pool) < PoolMax
  /\ pool' = newClient([pool EXCEPT !.pending = Tail(@)], Head(pool.pending))
  /\ UNCHANGED <<boot, maxRows, call, mainPc, probeResult, signal, deadlinePassed, sd, exited>>

\* the engine accepts the connection of client k: the caller's pool.connect() resolves
\* and query() / execute() goes on to await client.query(text, params)
ClientConnected(k) ==
  /\ Running /\ pool.state[k] = "connecting"
  /\ LET c == pool.owner[k]
     IN /\ pool' = [pool EXCEPT !.state[k] = "busy"]
        /\ call' = [call EXCEPT ![c].pc = "executing", ![c].client = k, ![c].acquired = TRUE]
  /\ UNCHANGED <<boot, maxRows, mainPc, probeResult, signal, deadlinePassed, sd, exited>>

\* the connection attempt of client k fails: pool.connect() rejects with the driver's error
ClientConnectFailed(k) ==
  /\ Running /\ pool.state[k] = "connecting"
  /\ LET c == pool.owner[k]
         cl == finishCall([call[c] EXCEPT !.engine = ConnectError,
                                          !.db = [kind |-> "threw", error |-> ConnectError]])
     IN /\ pool' = pulseEnding([pool EXCEPT !.state[k] = "none", !.owner[k] = 0])
        /\ call' = [call EXCEPT ![c] = cl]
        /\ MainAfter(c, cl)
  /\ UNCHANGED <<boot, maxRows, signal, deadlinePassed, sd, exited>>

\* client.query settles with ans (a result, an engine error, the query timeout):
\* the rest of query() / execute() runs, then the handler and the call handler
StatementSettles(c, ans) ==
  /\ Running /\ call[c].pc = "executing"
  /\ LET r == dbFinally(pool, dbTryCatch(call[c], ans, maxRows))
         cl == finishCall(r.call)
     IN /\ pool' = r.pool
        /\ call' = [call EXCEPT ![c] = cl]
        /\ MainAfter(c, cl)
  /\ UNCHANGED <<boot, maxRows, signal, deadlinePassed, sd, exited>>

\* idleTimeoutMillis expires for idle client k
IdleTimeout(k) ==
  /\ Running /\ ~pool.ending /\ pool.state[k] = "idle"
  /\ pool' = [pool EXCEPT !.state[k] = "none"]
  /\ UNCHANGED <<boot, maxRows, call, mainPc, probeResult, signal, deadlinePassed, sd, exited>>

(***************************************************************************)
(* Shutdown: the signal listeners, index.ts gracefulShutdown, and          *)
(* DatabaseManager.gracefulShutdown / close.                               *)
(***************************************************************************)
NoRun == [pc |-> "off", end |-> "none", result |-> "none", error |-> None]

\* database.ts line 296: the condition of the drain loop
drainLoopCondition(p, passed) == totalCount(p) > idleCount(p) /\ ~passed

\* DatabaseManager.gracefulShutdown from one evaluation of the loop condition to its
\* next await: the 100 ms sleep, or close() and its await of pool.end()
shutdownStep(p, run, passed) ==
  IF drainLoopCondition(p, passed)
  THEN [pool |-> p, run |-> [run EXCEPT !.pc = "sleeping"]]
  ELSE LET r == poolEnd(p)
       IN [pool |-> r.pool,
           run |-> [run EXCEPT !.pc = "closing",
                               !.end = IF r.rejected THEN "rejected" ELSE "pending"]]

\* DatabaseManager.close, lines 277-286, once pool.end() has settled: the error it
\* throws, or None
closeOutcome(run) ==
  IF run.end = "rejected"
  THEN DatabaseError(Msg("Failed to close database connection pool", <<>>), "", "")
  ELSE None

\* a signal is delivered: its listeners run in the order they were registered, the
\* module-level one first, main()'s handleShutdown only once main() has registered it
Signal(s) ==
  /\ Running /\ signal = "none"
  /\ mainPc # "start"   \* main() runs up to its first await before any listener can
  /\ signal' = s
  /\ LET m == shutdownStep(pool, sd["module"], deadlinePassed)
         n == IF mainPc = "serving"
              THEN shutdownStep(m.pool, sd["main"], deadlinePassed)
              ELSE [pool |-> m.pool, run |-> sd["main"]]
     IN /\ pool' = n.pool
        /\ sd' = [sd EXCEPT !["module"] = m.run, !["main"] = n.run]
  /\ UNCHANGED <<boot, maxRows, call, mainPc, probeResult, deadlinePassed, exited>>

\* the shutdownTimeout (database.ts line 293) has elapsed since startTime
DeadlinePasses ==
  /\ Running /\ signal # "none" /\ ~deadlinePassed
  /\ deadlinePassed' = TRUE
  /\ UNCHANGED <<boot, maxRows, pool, call, mainPc, probeResult, signal, sd, exited>>

\* the 100 ms timer of line 301 fires: the loop condition is evaluated again
Wake(h) ==
  /\ Running /\ sd[h].pc = "sleeping"
  /\ LET r == shutdownStep(pool, sd[h], deadlinePassed)
     IN pool' = r.pool /\ sd' = [sd EXCEPT ![h] = r.run]
  /\ UNCHANGED <<boot, maxRows, call, mainPc, probeResult, signal, deadlinePassed, exited>>

\* pool.end() has settled for listener h: close() returns or throws,
\* DatabaseManager.gracefulShutdown settles the same way, index.ts gracefulShutdown
\* catches, and handleShutdown calls process.exit(0)
CloseSettles(h) ==
  /\ Running /\ sd[h].pc = "closing"
  /\ sd[h].end = "rejected" \/ pool.ended
  /\ sd' = [sd EXCEPT ![h].pc = "done",
                      ![h].error = closeOutcome(sd[h]),
                      ![h].result = IF closeOutcome(sd[h]) = None THEN "resolved" ELSE "rejected"]
  /\ exited' = IF h = "main" THEN "0" ELSE exited
  /\ UNCHANGED <<boot, maxRows, pool, call, mainPc, probeResult, signal, deadlinePassed>>

(***************************************************************************)
(* The specification.                                                      *)
(***************************************************************************)
\* new DatabaseManager(connectionString) has returned
Constructed == [pc |-> "constructed"]

Init ==
  /\ boot = Constructed
  /\ maxRows \in 1..MaxRowsCfg
  /\ pool = [state |-> [k \in ClientIds |-> "none"], owner |-> [k \in ClientIds |-> 0],
             pending |-> <<>>, ending |-> FALSE, ended |-> FALSE, endCalls |-> 0]
  /\ call = [c \in Callers |-> IdleCall]
  /\ mainPc = "start"
  /\ probeResult = "none"
  /\ signal = "none"
  /\ deadlinePassed = FALSE
  /\ sd = [h \in Handlers |-> NoRun]
  /\ exited = "no"

Settles(c) ==
  \E ans \in {[ok |-> TRUE, result |-> r] :
                r \in EngineResults(call[c].method) \cup LargeResults(call[c].method, maxRows)}
             \cup {[ok |-> FALSE, error |-> e] : e \in StatementErrors} :
    StatementSettles(c, ans)

\* the steps of the pool, the engine, main() and the shutdown
Background ==
  \/ MainStart
  \/ MainRegister
  \/ \E k \in ClientIds : PulseIdle(k)
  \/ PulseNew
  \/ \E k \in ClientIds : ClientConnected(k)
  \/ \E k \in ClientIds : ClientConnectFailed(k)
  \/ \E c \in Callers : Settles(c)
  \/ \E k \in ClientIds : IdleTimeout(k)
  \/ \E s \in {"SIGINT", "SIGTERM"} : Signal(s)
  \/ DeadlinePasses
  \/ \E h \in Handlers : Wake(h)
  \/ \E h \in Handlers : CloseSettles(h)

\* concurrent remote calls, drawn from CoreRequests
Next ==
  \/ \E c \in Callers, req \in CoreRequests : CallTool(c, req)
  \/ Background

Spec == Init /\ [][Next]_vars

\* one remote call at a time, drawn from all Requests
ToolNext ==
  \/ \E req \in Requests : CallTool(1, req)
  \/ Background

ToolSpec == Init /\ [][ToolNext]_vars

\* What the event loop and the configuration guarantee: timers fire, promise
\* continuations run, and query_timeout (createPool, line 96) settles every statement.
\* Nothing bounds a connection attempt (createPool passes no connectionTimeoutMillis),
\* and nothing obliges callers or signals to arrive.
Fairness ==
  /\ WF_vars(MainStart)
  /\ WF_vars(MainRegister)
  /\ WF_vars(\E k \in ClientIds : PulseIdle(k))
  /\ WF_vars(PulseNew)
  /\ \A c \in Callers : WF_vars(Settles(c))
  /\ WF_vars(DeadlinePasses)
  /\ \A h \in Handlers : WF_vars(Wake(h))
  /\ \A h \in Handlers : WF_vars(CloseSettles(h))

\* one remote call at a time, drawn from CoreRequests
FairNext ==
  \/ \E req \in CoreRequests : CallTool(1, req)
  \/ Background

FairSpec == Init /\ [][FairNext]_vars /\ Fairness


(***************************************************************************)
(* Startup from the command line and the environment.                      *)
(***************************************************************************)
\* no environment variable is set
NoEnv == [n \in EnvNames |-> Undefined]

\* the environments of ConfigSpec: text settings absent or set, numeric settings
\* absent, a number (positive, zero or negative), or text that is no number
ConfigEnvs ==
  {[NoEnv EXCEPT !["POSTGRES_HOST"] = h, !["POSTGRES_PORT"] = p, !["POSTGRES_DATABASE"] = d,
                 !["POSTGRES_USER"] = u, !["POSTGRES_PASSWORD"] = w,
                 !["POSTGRES_QUERY_TIMEOUT"] = q, !["POSTGRES_POOL_MIN"] = lo,
                 !["POSTGRES_POOL_MAX"] = hi, !["POSTGRES_POOL_IDLE_TIMEOUT"] = it,
                 !["POSTGRES_MAX_ROWS"] = m] :
     h \in {Undefined, Str(Env_host)},
     p \in {Undefined, Str(Env_6543), Str(Env_abc), Str(Env_12abc)},
     d \in {Undefined, Str(Env_database)},
     u \in {Undefined, Str(Env_user)},
     w \in {Undefined, Str(Env_password)},
     q \in {Undefined, Str(Env_abc)},
     lo \in {Undefined, Str(Env_abc), Str(Env_20)},
     hi \in {Undefined, Str(Env_0), Str(Env_minus1)},
     it \in {Undefined, Str(Env_abc)},
     m \in {Undefined, Str(Env_7), Str(Env_abc)}}

\* process.argv.slice(2)
ConfigArgvs ==
  {<<>>, <<Arg_other>>, <<Url_full>>, <<Url_noPort>>, <<Url_hostOnly>>, <<Url_badPort>>}

\* the command lines and environments of BootSpec
BootArgvs == {<<>>, <<Arg_other, Url_full>>, <<Url_badPort>>}

BootEnvs ==
  {NoEnv, [NoEnv EXCEPT !["POSTGRES_MAX_ROWS"] = Str(T_2)],
   [NoEnv EXCEPT !["POSTGRES_PORT"] = Str(Env_abc)]}

\* the module is loaded with command line argv and environment env: nothing has run
Loaded(argv, env) ==
  /\ boot = [pc |-> "constructing", argv |-> argv, env |-> env]
  /\ maxRows = 0
  /\ pool = [state |-> [k \in ClientIds |-> "none"], owner |-> [k \in ClientIds |-> 0],
             pending |-> <<>>, ending |-> FALSE, ended |-> FALSE, endCalls |-> 0]
  /\ call = [c \in Callers |-> IdleCall]
  /\ mainPc = "start"
  /\ probeResult = "none"
  /\ signal = "none"
  /\ deadlinePassed = FALSE
  /\ sd = [h \in Handlers |-> NoRun]
  /\ exited = "no"

\* index.ts lines 53-65: new DatabaseManager(parseConnectionString()), whose
\* constructor (database.ts lines 25-30) loads the configuration and then creates the
\* pool; an error it throws is caught and the process exits with code 1
Construct ==
  /\ Running /\ boot.pc = "constructing"
  /\ LET r == loadConfig(parseConnectionString(boot.argv), boot.env)
     IN IF r.ok
        THEN /\ boot' = [pc |-> "constructed", argv |-> boot.argv, env |-> boot.env,
                         config |-> r.config]
             /\ maxRows' = r.config.maxRows.v
             /\ UNCHANGED exited
        ELSE /\ boot' = [pc |-> "failed", argv |-> boot.argv, env |-> boot.env,
                         error |-> r.error]
             /\ exited' = "1"
             /\ UNCHANGED maxRows
  /\ UNCHANGED <<pool, call, mainPc, probeResult, signal, deadlinePassed, sd>>

ConfigInit == \E argv \in ConfigArgvs, env \in ConfigEnvs : Loaded(argv, env)

\* configuration resolution alone, over ConfigArgvs and ConfigEnvs
ConfigSpec == ConfigInit /\ [][Construct]_vars

BootInit == \E argv \in BootArgvs, env \in BootEnvs : Loaded(argv, env)

\* the server from the loading of the module on, one remote call at a time
BootNext ==
  \/ Construct
  \/ FairNext

BootSpec == BootInit /\ [][BootNext]_vars

(***************************************************************************)
(* Properties of the Pool Manager, the call handler and the tool gates.    *)
(***************************************************************************)
RemoteCallers == Callers \ {Probe}

\* the arguments of call c satisfy the input contract of the query and execute tools
hasQueryText(c) ==
  /\ call[c].args # Undefined
  /\ call[c].args.t = "object"
  /\ call[c].args.query.t = "string"
  /\ call[c].args.query.v # <<>>
  /\ call[c].args.params.t \in {"undefined", "array"}

\* the normalized text of the query argument of call c
normalizedText(c) == toLowerCase(trim(call[c].args.query.v))

\* the normalized text contains one of the forbidden phrases
ContainsForbidden(text) == \E i \in 1..Len(DANGEROUS_COMMANDS) : includes(text, DANGEROUS_COMMANDS[i])

\* the tool a failure message sends the caller to, "" when it names none
toolNamedBy(template) ==
  IF template = "SELECT and WITH statements should use the postgresql_query tool instead"
  THEN "postgresql_query"
  ELSE ""

\* C1: once query() or execute() has settled, by returning or by throwing, the client
\* it acquired has been released exactly once and is no longer checked out to the
\* call; a call that acquired no client released none, and nothing is released
\* while the statement is still running.
C1_ReleasedExactlyOnce ==
  \A c \in Callers :
    /\ call[c].pc = "returned" /\ call[c].acquired
         => /\ call[c].releases = 1
            /\ \A k \in ClientIds :
                 pool.state[k] \in {"connecting", "busy"} => pool.owner[k] # c
    /\ call[c].pc = "returned" /\ ~call[c].acquired => call[c].releases = 0
    /\ call[c].pc \in {"acquiring", "executing"} => call[c].releases = 0

\* a call whose statement failed has released its client while another call still
\* holds one
C1_Witness ==
  \E c \in RemoteCallers, d \in Callers :
    /\ c # d
    /\ call[c].pc = "returned" /\ call[c].acquired /\ call[c].releases = 1
    /\ call[c].db.kind = "threw"
    /\ call[d].pc = "executing"

\* C2: the rows query() returns are the first min(resultSize, maxRows) rows of the
\* engine's result in the engine's order, and the truncation warning is logged
\* exactly when resultSize > maxRows.
C2_RowsCapped ==
  \A c \in RemoteCallers :
    call[c].pc = "returned" /\ call[c].method = "query" /\ call[c].db.kind = "returned"
      => LET resultSize == Len(call[c].engine.rows)
             rows == call[c].db.value.rows
         IN /\ Len(rows) = Min({resultSize, maxRows})
            /\ \A i \in 1..Len(rows) : rows[i] = call[c].engine.rows[i]
            /\ (call[c].warned = 1) <=> (resultSize > maxRows)

\* a result larger than maxRows was cut to maxRows rows and the warning logged
C2_Witness ==
  \E c \in RemoteCallers :
    /\ call[c].pc = "returned" /\ call[c].method = "query" /\ call[c].db.kind = "returned"
    /\ Len(call[c].engine.rows) > maxRows
    /\ Len(call[c].db.value.rows) = maxRows
    /\ call[c].warned = 1

\* C3: a run of gracefulShutdown() that has started always settles (or the process
\* has exited through the other listener).
C3_ShutdownSettles ==
  \A h \in Handlers : (sd[h].pc # "off") ~> (sd[h].pc = "done" \/ exited # "no")

\* C4: every failure inside the Pool Manager, acquiring a connection, running a
\* statement or closing the pool, reaches the caller as a DatabaseError that carries
\* the engine's code and detail.
C4_FailuresAreDatabaseErrors ==
  /\ \A c \in RemoteCallers :
       call[c].pc = "returned" /\ call[c].method # "" /\ call[c].db.kind = "threw"
         => /\ call[c].db.error.type = "DatabaseError"
            /\ call[c].db.error.code = call[c].engine.code
            /\ call[c].db.error.detail = call[c].engine.detail
  /\ \A h \in Handlers : sd[h].error # None => sd[h].error.type = "DatabaseError"

\* C5: the envelope the call handler returns has isError = true when the call
\* failed and has no isError when it succeeded.
C5_EnvelopeFlagsFailure ==
  \A c \in RemoteCallers :
    call[c].pc = "returned"
      => IF call[c].db.kind = "threw"
         THEN "isError" \in DOMAIN call[c].envelope /\ call[c].envelope.isError
         ELSE "isError" \notin DOMAIN call[c].envelope

\* C6: every call the call handler has finished was answered with an envelope that
\* has content, whatever was thrown; the process exits only after a signal; and a
\* further call is accepted after each answer.
C6_CallHandlerAlwaysAnswers ==
  /\ \A c \in RemoteCallers :
       call[c].pc = "returned"
         => /\ "content" \in DOMAIN call[c].envelope
            /\ Running => ENABLED (\E req \in Requests : CallTool(c, req))
  /\ exited # "no" => signal # "none"

\* a call to a tool the dispatcher does not know was answered and the process runs
C6_Witness ==
  \E c \in RemoteCallers :
    /\ call[c].pc = "returned" /\ call[c].name \notin ToolNames
    /\ call[c].db.kind = "threw"
    /\ "content" \in DOMAIN call[c].envelope
    /\ exited = "no"

\* C7: the read-query tool gives a statement to query() only if it is read-only: its
\* normalized text begins with select or with and contains no forbidden phrase.
C7_ForbiddenNeverReachesQuery ==
  \A c \in RemoteCallers :
    call[c].name = "postgresql_query" /\ call[c].method = "query"
      => /\ ~ContainsForbidden(normalizedText(c))
         /\ startsWith(normalizedText(c), K_select) \/ startsWith(normalizedText(c), K_with)

\* C8: a statement given to the mutate-execute tool whose normalized text contains
\* a forbidden phrase fails with a ValidationError whose message names a phrase the
\* text contains, whatever its first word is, and execute() is never entered.
C8_ForbiddenRejectedByExecute ==
  \A c \in RemoteCallers :
    /\ call[c].name = "postgresql_execute" /\ call[c].pc # "idle"
    /\ hasQueryText(c) /\ ContainsForbidden(normalizedText(c))
    => /\ call[c].pc = "returned" /\ call[c].method = ""
       /\ call[c].db.kind = "threw"
       /\ call[c].db.error.type = "ValidationError"
       /\ call[c].db.error.message.template =
            "Dangerous command detected: ${dangerousCmd}. This operation is not allowed for security reasons."
       /\ call[c].db.error.message.arg \in Range(DANGEROUS_COMMANDS)
       /\ includes(normalizedText(c), call[c].db.error.message.arg)

\* a statement that begins with select and contains a forbidden phrase was rejected
\* by the mutate-execute tool
C8_Witness ==
  \E c \in RemoteCallers :
    /\ call[c].name = "postgresql_execute" /\ call[c].pc = "returned"
    /\ hasQueryText(c) /\ call[c].args.query.v = Sql_selectDropDatabase
    /\ call[c].db.kind = "threw" /\ call[c].db.error.type = "ValidationError"
    /\ call[c].db.error.message.arg = K_drop_database

\* C9: a read-only statement given to the mutate-execute tool fails with a
\* ValidationError whose message directs the caller to postgresql_query, and
\* execute() is never entered.
C9_ReadOnlyDirectedToQueryTool ==
  \A c \in RemoteCallers :
    /\ call[c].name = "postgresql_execute" /\ call[c].pc # "idle"
    /\ hasQueryText(c) /\ ~ContainsForbidden(normalizedText(c))
    /\ \/ toLowerCase(splitFirst(trim(call[c].args.query.v))) = K_select
       \/ startsWith(normalizedText(c), K_with)
    => /\ call[c].pc = "returned" /\ call[c].method = ""
       /\ call[c].db.kind = "threw"
       /\ call[c].db.error.type = "ValidationError"
       /\ toolNamedBy(call[c].db.error.message.template) = "postgresql_query"

\* the statement of call c begins with one of the mutating verbs
isMutating(c) ==
  toLowerCase(splitFirst(trim(call[c].args.query.v))) \in Range(ALLOWED_COMMANDS)

C11_ReadOnlyClassification ==
  \A c \in RemoteCallers :
    /\ call[c].name \in {"postgresql_query", "postgresql_execute"} /\ call[c].pc # "idle"
    /\ hasQueryText(c)
    /\ startsWith(normalizedText(c), K_select) \/ startsWith(normalizedText(c), K_with)
    => IF call[c].name = "postgresql_query"
       THEN call[c].method = "query" /\ call[c].text = call[c].args.query.v
       ELSE call[c].method = "" /\ call[c].pc = "returned" /\ call[c].db.kind = "threw"

\* " SELECT 1" was handed to query() by the read-query tool
C11_Witness ==
  \E c \in RemoteCallers :
    /\ call[c].name = "postgresql_query" /\ hasQueryText(c)
    /\ call[c].args.query.v = Sql_SelectPadded
    /\ call[c].method = "query" /\ call[c].pc = "executing"

\* the first whitespace-delimited word of the statement of call c, lower-cased
leadingToken(c) == toLowerCase(splitFirst(trim(call[c].args.query.v)))

\* C12: for a statement with no forbidden phrase, the mutate-execute tool enters
\* execute() exactly when the leading token, lower-cased, is one of insert, update,
\* delete, create, alter, drop, truncate, grant, revoke; with any other leading
\* token the call fails with a ValidationError and execute() is not entered.
C12_ExecuteIffAllowedVerb ==
  \A c \in RemoteCallers :
    /\ call[c].name = "postgresql_execute" /\ call[c].pc # "idle"
    /\ hasQueryText(c) /\ ~ContainsForbidden(normalizedText(c))
    => /\ (call[c].method = "execute") <=>
            leadingToken(c) \in {K_insert, K_update, K_delete, K_create, K_alter, K_drop,
                                 K_truncate, K_grant, K_revoke}
       /\ call[c].method # "execute"
            => /\ call[c].method = "" /\ call[c].pc = "returned"
               /\ call[c].db.kind = "threw"
               /\ call[c].db.error.type = "ValidationError"

\* "UPDATE t set a=1" has entered execute()
C12_Witness ==
  \E c \in RemoteCallers :
    /\ call[c].name = "postgresql_execute" /\ hasQueryText(c)
    /\ call[c].args.query.v = Sql_UpdateUpper
    /\ call[c].method = "execute" /\ call[c].pc = "executing"

\* the arguments of call c satisfy the create-table input contract
hasColumns(c) ==
  /\ call[c].args # Undefined
  /\ CreateTableParamsSchema(call[c].args) = <<>>

\* the arguments of call c satisfy the describe-table input contract
hasTableName(c) ==
  /\ call[c].args # Undefined
  /\ DescribeTableParamsSchema(call[c].args) = <<>>

\* C13: a create-table or describe-table call whose table name or one of whose
\* column names is not an identifier fails with a ValidationError, enters no
\* DatabaseManager method and acquires no connection.
C13_BadIdentifierRejected ==
  \A c \in RemoteCallers :
    /\ call[c].pc # "idle"
    /\ \/ /\ call[c].name = "postgresql_create_table" /\ hasColumns(c)
          /\ \/ ~isIdentifier(call[c].args.tableName.v)
             \/ \E i \in 1..Len(call[c].args.columns.v) :
                  ~isIdentifier(call[c].args.columns.v[i].name.v)
       \/ /\ call[c].name = "postgresql_describe_table" /\ hasTableName(c)
          /\ ~isIdentifier(call[c].args.tableName.v)
    => /\ call[c].pc = "returned" /\ call[c].method = ""
       /\ ~call[c].acquired /\ call[c].client = 0
       /\ call[c].db.kind = "threw"
       /\ call[c].db.error.type = "ValidationError"

\* a create-table call with the column name "a b" was rejected
C13_Witness ==
  \E c \in RemoteCallers :
    /\ call[c].name = "postgresql_create_table" /\ call[c].pc = "returned"
    /\ hasColumns(c)
    /\ isIdentifier(call[c].args.tableName.v)
    /\ \E i \in 1..Len(call[c].args.columns.v) : call[c].args.columns.v[i].name.v = Id_bad_col
    /\ call[c].db.kind = "threw" /\ call[c].db.error.type = "ValidationError"
    /\ ~call[c].acquired

\* v is a string of at least one character
isNonEmptyString(v) == v.t = "string" /\ v.v # <<>>

\* the field paths of the arguments args of tool name that violate its input contract
violatedPaths(name, args) ==
  LET unless(ok, path) == IF ok THEN {} ELSE {path}
      bad(f) == {j \in 1..Len(args.columns.v) : ~isNonEmptyString(args.columns.v[j][f])}
  IN IF args.t # "object" THEN {<<>>}
     ELSE CASE name \in {"postgresql_query", "postgresql_execute"} ->
                 unless(isNonEmptyString(args.query), <<"query">>)
                 \cup unless(args.params.t \in {"undefined", "array"}, <<"params">>)
            [] name = "postgresql_describe_table" ->
                 unless(isNonEmptyString(args.tableName), <<"tableName">>)
            [] OTHER ->
                 unless(isNonEmptyString(args.tableName), <<"tableName">>)
                 \cup (IF args.columns.t # "array" \/ args.columns.v = <<>>
                       THEN {<<"columns">>}
                       ELSE {<<"columns", DecimalDigits[j], "name">> : j \in bad("name")}
                            \cup {<<"columns", DecimalDigits[j], "type">> : j \in bad("type")})

\* C14: a call whose arguments violate the tool's input contract returns an error
\* text that lists every violated field path with a reason, and nothing of the call
\* is applied: the statement is not classified and no DatabaseManager method is
\* entered.
C14_ContractViolationsListed ==
  \A c \in RemoteCallers :
    /\ call[c].pc # "idle"
    /\ call[c].name \in ToolNames \ {"postgresql_list_tables"}
    /\ violatedPaths(call[c].name, call[c].args) # {}
    => /\ call[c].pc = "returned" /\ call[c].method = "" /\ ~call[c].acquired
       /\ call[c].db.kind = "threw" /\ call[c].db.error.type = "ZodError"
       /\ call[c].envelope.content.text = "Input Validation Error: "
       /\ {call[c].envelope.content.issues[i].path :
             i \in 1..Len(call[c].envelope.content.issues)}
            = violatedPaths(call[c].name, call[c].args)
       /\ \A i \in 1..Len(call[c].envelope.content.issues) :
            call[c].envelope.content.issues[i].message # ""

\* a mutate-execute call with a forbidden statement and params that are no array
\* was answered with the one violated path, params, and the statement was not
\* classified
C14_Witness ==
  \E c \in RemoteCallers :
    /\ call[c].name = "postgresql_execute" /\ call[c].pc = "returned"
    /\ call[c].args.t = "object"
    /\ call[c].args.query = Str(Sql_dropDatabase) /\ call[c].args.params = Num(1)
    /\ call[c].db.error.type = "ZodError"
    /\ Len(call[c].envelope.content.issues) = 1
    /\ call[c].envelope.content.issues[1].path = <<"params">>


(***************************************************************************)
(* Properties of the startup, the probe and the rendering of results.      *)
(***************************************************************************)
\* the fields the connection string of the command line carries, each as text, empty
\* when the command line has no connection string or the string does not carry it
carried(argv) ==
  LET cs == parseConnectionString(argv)
      url == URL(cs.v)
  IN IF cs = Undefined
     THEN [host |-> <<>>, port |-> <<>>, database |-> <<>>, user |-> <<>>, password |-> <<>>]
     ELSE [host |-> url.hostname, port |-> url.port,
           database |-> IF url.pathname = <<>> THEN <<>> ELSE Tail(url.pathname),
           user |-> url.username, password |-> url.password]

\* v is a string made of decimal digits only
isDecimal(v) ==
  /\ v.t = "string" /\ v.v # <<>>
  /\ \A i \in 1..Len(v.v) : v.v[i] \in Range(DecimalDigits)

\* the URL's value when the URL carries the field, otherwise the environment's when it
\* is set, otherwise the default
byPrecedence(fromUrl, fromEnv, default) ==
  IF fromUrl # <<>> THEN Str(fromUrl)
  ELSE IF fromEnv # Undefined THEN fromEnv
  ELSE default

\* C15: each of host, port, database, user, password resolves to the URL's value when
\* the URL carries the field, otherwise to the environment variable of the same name
\* when it is set, otherwise to the default; so a URL without a port resolves the
\* port from POSTGRES_PORT when that is set.
C15_PrecedencePerField ==
  boot.pc = "constructed"
    => LET url == carried(boot.argv)
           env == boot.env
           cfg == boot.config
       IN /\ cfg.host = byPrecedence(url.host, env["POSTGRES_HOST"], Str(T_localhost))
          /\ cfg.database
               = byPrecedence(url.database, env["POSTGRES_DATABASE"], Str(T_postgresName))
          /\ cfg.user = byPrecedence(url.user, env["POSTGRES_USER"], Str(T_postgresName))
          /\ cfg.password = byPrecedence(url.password, env["POSTGRES_PASSWORD"], Undefined)
          /\ env["POSTGRES_PORT"] = Undefined \/ isDecimal(env["POSTGRES_PORT"])
               => cfg.port
                    = Num(digitsValue(
                        byPrecedence(url.port, env["POSTGRES_PORT"], Str(T_5432)).v))

\* the numeric settings: the field of the configuration, its environment variable
\* and its default
NumericSettings ==
  {[field |-> "port", env |-> "POSTGRES_PORT", default |-> 5432],
   [field |-> "queryTimeout", env |-> "POSTGRES_QUERY_TIMEOUT", default |-> 30000],
   [field |-> "poolMin", env |-> "POSTGRES_POOL_MIN", default |-> 2],
   [field |-> "poolMax", env |-> "POSTGRES_POOL_MAX", default |-> 10],
   [field |-> "poolIdleTimeout", env |-> "POSTGRES_POOL_IDLE_TIMEOUT", default |-> 30000],
   [field |-> "maxRows", env |-> "POSTGRES_MAX_ROWS", default |-> 1000]}

\* C16: with a connection string that can be parsed, or none, and numeric environment
\* values that are each absent, a positive number or no number at all, configuration
\* resolution succeeds, and every numeric setting whose environment value is absent or
\* is no number has its default.
C16_MalformedNumbersDefault ==
  /\ boot.pc # "constructing"
  /\ parseConnectionString(boot.argv) = Undefined
       \/ URL(parseConnectionString(boot.argv).v).ok
  /\ \A s \in NumericSettings :
       isDecimal(boot.env[s.env]) => digitsValue(boot.env[s.env].v) > 0
  /\ \A s \in NumericSettings : boot.env[s.env] # Str(Env_minus1)
  => /\ boot.pc = "constructed"
     /\ \A s \in NumericSettings :
          /\ ~isDecimal(boot.env[s.env])
          /\ s.field = "port" => carried(boot.argv).port = <<>>
          => boot.config[s.field] = Num(s.default)

\* C17: a connection string that cannot be parsed makes the construction fail with an
\* error that carries the URL parser's message; the process has then exited with
\* code 1, no pool was created, main() has not run and no call was accepted.
C17_MalformedUrlIsFatal ==
  /\ boot.pc # "constructing"
  /\ \E i \in 1..Len(boot.argv) : boot.argv[i] = Url_badPort
  => /\ boot.pc = "failed"
     /\ boot.error.message.template = "Invalid connection string: ${error.message}"
     /\ boot.error.message.arg = T_InvalidURL
     /\ exited = "1"
     /\ \A k \in ClientIds : pool.state[k] = "none"
     /\ pool.pending = <<>> /\ ~pool.ending
     /\ mainPc = "start" /\ probeResult = "none"
     /\ \A c \in Callers : call[c].pc = "idle"

\* the construction failed on the connection string "postgresql://h:x/d"
C17_Witness ==
  /\ boot.pc = "failed" /\ boot.argv = <<Url_badPort>>
  /\ boot.error.type = "Error"
  /\ exited = "1"

\* C18: testConnection() always returns a boolean: true exactly when the probe
\* statement succeeded, false for every failure, a failure to acquire a connection
\* included; after either result main() goes on to serve.
C18_ProbeNeverThrows ==
  /\ probeResult # "none" => call[Probe].pc = "returned"
  /\ call[Probe].pc = "returned"
       => /\ probeResult \in {"true", "false"}
          /\ (probeResult = "true") <=> (call[Probe].acquired /\ call[Probe].db.kind = "returned")
          /\ mainPc \in {"connected", "serving"}
          /\ exited # "no" => signal # "none"
          /\ Running /\ mainPc = "connected" => ENABLED MainRegister

\* the probe could not acquire a connection, testConnection() returned false, and the
\* server went on to serve a call
C18_Witness ==
  /\ call[Probe].pc = "returned" /\ ~call[Probe].acquired
  /\ call[Probe].db.kind = "threw"
  /\ probeResult = "false"
  /\ mainPc = "serving"
  /\ \E c \in RemoteCallers : call[c].pc = "returned"

\* C19: a successful read-query that returned no rows is answered with the text
\* 'Query executed successfully but returned no rows.' and nothing else.
C19_NoRowsMessage ==
  \A c \in RemoteCallers :
    /\ call[c].name = "postgresql_query" /\ call[c].pc = "returned"
    /\ call[c].db.kind = "returned" /\ Len(call[c].db.value.rows) = 0
    => call[c].envelope.content
         = [text |-> "Query executed successfully but returned no rows."]

\* a read-query returned no rows
C19_Witness ==
  \E c \in RemoteCallers :
    /\ call[c].name = "postgresql_query" /\ call[c].pc = "returned"
    /\ call[c].db.kind = "returned" /\ call[c].db.value.rows = <<>>
    /\ call[c].envelope.content.text = "Query executed successfully but returned no rows."

\* C20: a read-query that returned n > 0 rows is rendered with min(n, 100) data rows,
\* the first ones, with a note of n - 100 more rows when n > 100 and with no note
\* when n <= 100, whatever config.maxRows is.
C20_DisplayCapped ==
  \A c \in RemoteCallers :
    /\ call[c].name = "postgresql_query" /\ call[c].pc = "returned"
    /\ call[c].db.kind = "returned" /\ Len(call[c].db.value.rows) > 0
    => LET n == Len(call[c].db.value.rows)
           content == call[c].envelope.content
       IN /\ Len(content.dataRows) = Min({n, 100})
          /\ \A i \in 1..Len(content.dataRows) : content.dataRows[i] = call[c].db.value.rows[i]
          /\ content.more = IF n > 100 THEN n - 100 ELSE 0

\* a read-query returned 101 rows: 100 are rendered, with a note of 1 more
C20_Witness ==
  \E c \in RemoteCallers :
    /\ call[c].name = "postgresql_query" /\ call[c].pc = "returned"
    /\ call[c].db.kind = "returned" /\ Len(call[c].db.value.rows) = 101
    /\ Len(call[c].envelope.content.dataRows) = 100
    /\ call[c].envelope.content.more = 1


(***************************************************************************)
(* Properties of the rendering of execute(), of the shutdown, of           *)
(* concurrent calls and of the startup order.                              *)
(***************************************************************************)
\* the sentence of each verb handleExecute knows
VerbSentences ==
  {<<K_insert, "INSERT operation completed successfully. ${result.rowCount} row(s) inserted.">>,
   <<K_update, "UPDATE operation completed successfully. ${result.rowCount} row(s) updated.">>,
   <<K_delete, "DELETE operation completed successfully. ${result.rowCount} row(s) deleted.">>,
   <<K_create, "CREATE operation completed successfully.">>,
   <<K_alter, "ALTER operation completed successfully.">>,
   <<K_drop, "DROP operation completed successfully.">>,
   <<K_truncate, "TRUNCATE operation completed successfully. All rows removed from table.">>,
   <<K_grant, "GRANT operation completed successfully. Permissions granted.">>,
   <<K_revoke, "REVOKE operation completed successfully. Permissions revoked.">>}

\* C21: the sentence of a successful mutate-execute is the one of the command verb in
\* the result of execute(), compared without regard to case, whatever the leading verb
\* of the caller's statement is; a verb that is none of the nine, "UNKNOWN" for a
\* missing one included, gets the generic sentence with that verb and the row count.
C21_SentenceByEngineVerb ==
  \A c \in RemoteCallers :
    /\ call[c].name = "postgresql_execute" /\ call[c].pc = "returned"
    /\ call[c].db.kind = "returned"
    => LET command == call[c].db.value.command
           content == call[c].envelope.content
       IN /\ \A vs \in VerbSentences :
               toLowerCase(command) = vs[1] => content.text = vs[2]
          /\ (\A vs \in VerbSentences : toLowerCase(command) # vs[1])
               => /\ content.text
                       = "${result.command} operation completed successfully. ${result.rowCount} row(s) affected."
                  /\ content.command = command
                  /\ content.rowCount = call[c].db.value.rowCount

\* an insert statement for which the engine reported the verb UPDATE got the sentence
\* of update
C21_Witness ==
  \E c \in RemoteCallers :
    /\ call[c].name = "postgresql_execute" /\ call[c].pc = "returned"
    /\ call[c].db.kind = "returned"
    /\ leadingToken(c) = K_insert
    /\ call[c].db.value.command = toUpperCase(K_update)
    /\ call[c].envelope.content.text
         = "UPDATE operation completed successfully. ${result.rowCount} row(s) updated."


\* the connections checked out of pool p: pool.totalCount - pool.idleCount
activeCount(p) == totalCount(p) - idleCount(p)

\* C22 (first half): close() has been invoked by a run of gracefulShutdown() only if
\* no connection was checked out or the 10 seconds had passed, and a run that finds
\* one of the two when it evaluates the loop condition invokes close() at once.
C22_CloseOnlyAfterDrainOrDeadline ==
  \A h \in Handlers :
    /\ sd[h].pc \in {"closing", "done"} => activeCount(pool) = 0 \/ deadlinePassed
    /\ sd[h].pc = "sleeping" /\ (activeCount(pool) = 0 \/ deadlinePassed)
         => shutdownStep(pool, sd[h], deadlinePassed).run.pc = "closing"

\* C22: close() is invoked only once no connection is checked out or the 10 seconds
\* have passed, and once it has been invoked no connection remains checked out.
C22_CloseLeavesNothingCheckedOut ==
  /\ C22_CloseOnlyAfterDrainOrDeadline
  /\ pool.endCalls > 0 => activeCount(pool) = 0


\* C23: every call that waits for a connection or for its statement eventually
\* returns, with a result or with a DatabaseError (unless the process exits first).
C23_EveryCallReturns ==
  \A c \in RemoteCallers :
    (call[c].pc \in {"acquiring", "executing"})
      ~> (\/ exited # "no"
          \/ /\ call[c].pc = "returned"
             /\ call[c].db.kind = "threw" => call[c].db.error.type = "DatabaseError")


\* C24: a checked-out connection is owned by exactly one call from its acquisition
\* to its release: a call that runs a statement holds a busy client that the pool has
\* handed to that call and to no other, every busy client is held by the call that
\* runs a statement on it, and at most poolMax connections are checked out at once.
C24_ExclusiveOwnership ==
  /\ \A c \in Callers :
       call[c].pc = "executing"
         => /\ call[c].client \in ClientIds
            /\ pool.state[call[c].client] = "busy"
            /\ pool.owner[call[c].client] = c
  /\ \A c1, c2 \in Callers :
       c1 # c2 /\ call[c1].pc = "executing" /\ call[c2].pc = "executing"
         => call[c1].client # call[c2].client
  /\ \A k \in ClientIds :
       pool.state[k] = "busy"
         => call[pool.owner[k]].pc = "executing" /\ call[pool.owner[k]].client = k
  /\ activeCount(pool) <= PoolMax
  /\ totalCount(pool) <= PoolMax

\* with the pool exhausted by the call that runs a statement, a second call waits for
\* a connection
C24_Witness ==
  \E c1, c2 \in RemoteCallers :
    /\ c1 # c2
    /\ call[c1].pc = "executing" /\ pool.state[call[c1].client] = "busy"
    /\ call[c2].pc = "acquiring" /\ c2 \in Range(pool.pending)
    /\ totalCount(pool) = PoolMax /\ idleCount(pool) = 0


\* C25 (second half): port, poolMin, poolMax, poolIdleTimeout, queryTimeout and maxRows
\* of a resolved configuration are positive integers, and a resolution that failed has
\* ended the process before a pool was created.
C25_NumericsPositive ==
  /\ boot.pc = "constructed" /\ "config" \in DOMAIN boot
       => \A s \in NumericSettings :
            boot.config[s.field].t = "number" /\ boot.config[s.field].v > 0
  /\ boot.pc = "failed" => exited = "1" /\ totalCount(pool) = 0 /\ mainPc = "start"

\* C25: every resolved configuration has poolMin <= poolMax and positive numeric
\* settings; environments that would violate this make the resolution fail.
C25_PoolBoundsOrdered ==
  /\ C25_NumericsPositive
  /\ boot.pc = "constructed" /\ "config" \in DOMAIN boot
       => boot.config.poolMin.v <= boot.config.poolMax.v


\* C26: the configuration is resolved and the pool created before main() starts the
\* probe, and the server is connected to its transport, so that a call can arrive,
\* only once the probe has returned true or false.
C26_StartupOrdered ==
  /\ boot.pc # "constructed"
       => /\ mainPc = "start" /\ call[Probe].pc = "idle" /\ probeResult = "none"
          /\ totalCount(pool) = 0 /\ pool.pending = <<>>
  /\ mainPc \in {"start", "probing"} => \A c \in RemoteCallers : call[c].pc = "idle"
  /\ mainPc = "probing" => call[Probe].pc \in {"acquiring", "executing"} /\ probeResult = "none"
  /\ mainPc \in {"connected", "serving"}
       => call[Probe].pc = "returned" /\ probeResult \in {"true", "false"}

\* from a command line and an environment the configuration was resolved, the probe
\* returned true, and a call was then accepted
C26_Witness ==
  /\ boot.pc = "constructed" /\ "config" \in DOMAIN boot
  /\ call[Probe].pc = "returned" /\ probeResult = "true"
  /\ mainPc \in {"connected", "serving"}
  /\ \E c \in RemoteCallers : call[c].pc # "idle"


\* C27: for one signal delivered once the server has started, gracefulShutdown() and
\* pool.end() are invoked at most once, and no run of the shutdown fails because the
\* pool was already being closed.
C27_ShutdownInvokedOnce ==
  /\ Cardinality({h \in Handlers : sd[h].pc # "off"}) <= 1
  /\ pool.endCalls <= 1
  /\ \A h \in Handlers : sd[h].end # "rejected" /\ sd[h].result # "rejected"

\* C28: process.exit(0) is called only after the pool.end() that the shutdown started
\* has settled: when the process has exited on a signal, pool.end() has been called
\* and the pool has ended.
C28_ExitAfterPoolClosed ==
  exited = "0" => pool.endCalls > 0 /\ pool.ended


\* C29: no statement whose normalized text contains a forbidden phrase is passed to
\* query() or execute(), whichever of the five tools passes it.
C29_NoForbiddenStatementExecuted ==
  \A c \in RemoteCallers :
    call[c].method # "" => ~ContainsForbidden(toLowerCase(trim(call[c].text)))


\* C30: the row count stated in the text of a successful non-empty read-query is the
\* number of rows query() returned, and so the number of rendered data rows plus the
\* count of the note (0 when there is no note).
C30_StatedCountMatchesRows ==
  \A c \in RemoteCallers :
    /\ call[c].name = "postgresql_query" /\ call[c].pc = "returned"
    /\ call[c].db.kind = "returned" /\ Len(call[c].db.value.rows) > 0
    => LET content == call[c].envelope.content
       IN /\ content.rowCount = Len(call[c].db.value.rows)
          /\ content.rowCount = Len(content.dataRows) + content.more

====
